---- MODULE Spec2Model ----
(***************************************************************************)
(* AutoFixOps backend: the sandboxed command executor                      *)
(* (backend/executor.py) and the resilient reasoning client                *)
(* (backend/claude_agent.py).                                              *)
(*                                                                         *)
(* Text is a sequence of one-character strings.  Regular expressions are   *)
(* syntax trees evaluated by Ends, which follows the semantics of Python's *)
(* re module for the constructs the two pattern lists use.                 *)
(***************************************************************************)
EXTENDS Integers, Sequences, FiniteSets, TLC

VARIABLES
  \* ---- SafeCommandExecutor.run ----
  command,      \* the argument of run
  safe_mode,    \* self.safe_mode
  x_pc,         \* "call" | "communicate" | "done"
  cmd,          \* command.strip()
  is_safe,      \* local is_safe
  argv,         \* shlex.split(cmd)
  exec_calls,   \* argument vectors handed to create_subprocess_exec
  procs,        \* processes created: [program, args, shell, state]
  x_result,     \* the dict run returned, or NoValue
  x_raised,     \* the exception that left run, or "none"
  x_outcome,    \* which return statement of run produced x_result
  \* ---- ClaudeDebugAgent.analyze / evaluate_fix, _post_with_retry ----
  op,           \* "analyze" | "evaluate_fix"
  request_id,   \* argument request_id
  a_pc,         \* "idle" | "loop" | "awaiting" | "sleep" | "done"
  attempt,      \* the loop variable of _post_with_retry
  last_exc,     \* local last_exc
  posts,        \* client.post calls issued
  in_flight,    \* client.post calls not yet answered
  attempts,     \* the outcome of every POST issued, in order
  waits,        \* the argument of every asyncio.sleep, in milliseconds
  pending,      \* what the running sleep will assign to last_exc
  log,          \* log records written, <<level, event, request_id[:8]>>
  a_return,     \* how _post_with_retry ended: [exc, data], or NoValue
  a_result,     \* the dict analyze / evaluate_fix returned, or NoValue
  a_raised,     \* the exception that left analyze / evaluate_fix, or "none"
  a_kind,       \* which return statement produced a_result
  \* ---- overlapping invocations of SafeCommandExecutor.run ----
  r_pc,         \* per invocation: "idle" | "communicate" | "done"
  r_cmd,        \* per invocation: local cmd
  r_proc,       \* per invocation: local proc, an index of children (0: unbound)
  r_result,     \* per invocation: the dict returned, or NoValue
  r_outcome,    \* per invocation: which return statement produced it
  children,     \* the host's process table: [owner, argv, state, killed_by]
  \* ---- ClaudeDebugAgent._truncate ----
  t_pc,         \* "idle" | "done"
  t_text,       \* argument text
  t_max_chars,  \* argument max_chars
  t_out,        \* the string returned
  \* ---- ClaudeDebugAgent._extract_json ----
  j_pc,         \* "idle" | "done"
  j_text,       \* argument text
  j_out,        \* [exc, value]: the exception raised or the value returned
  \* ---- SafeCommandExecutor.classify_commands ----
  k_pc,         \* "idle" | "done"
  commands,     \* argument commands
  k_out,        \* the dict returned: [safe, unsafe, forbidden]
  \* ---- MetricsStore (metrics.store) and the coroutines calling it ----
  store,        \* the fields of the MetricsStore
  m_lock,       \* store._lock: the caller holding it, 0 when free
  m_pc,         \* per caller: "idle" | "waiting" | "locked" | "half" | "done"
  m_args,       \* per caller: the method called and its arguments
  m_local,      \* per caller: the locals of snapshot read so far
  m_ret,        \* per caller: the value returned
  m_order,      \* the callers in the order they released the lock
  \* ---- the route handlers analyze_log and execute_commands (main.py) ----
  h_pc,         \* "idle" | "agent" | "run" | "done"
  h_route,      \* "/analyze" | "/execute"
  h_req_id,     \* req_id = get_request_id()
  h_payload,    \* the request body
  h_result,     \* analyze_log: the dict agent.analyze returned
  h_results,    \* execute_commands: local results
  h_status,     \* the HTTP status of the response, 0 before it
  h_response,   \* the response body
  h_raised,     \* the exception that left the handler, or "none"
  \* ---- record calls made on the MetricsStore one after another ----
  s_last,       \* the last record call made, or NoValue
  s_prev        \* store._sessions as it was before that call

avars == <<op, request_id, a_pc, attempt, last_exc, posts, in_flight, attempts, waits,
           pending, log, a_return, a_result, a_raised, a_kind>>

xvars == <<command, safe_mode, x_pc, cmd, is_safe, argv, exec_calls, procs,
           x_result, x_raised, x_outcome>>

rvars == <<r_pc, r_cmd, r_proc, r_result, r_outcome, children>>

tvars == <<t_pc, t_text, t_max_chars, t_out>>

jvars == <<j_pc, j_text, j_out>>

kvars == <<k_pc, commands, k_out>>

mvars == <<store, m_lock, m_pc, m_args, m_local, m_ret, m_order>>

svars == <<s_last, s_prev>>

hvars == <<h_pc, h_route, h_req_id, h_payload, h_result, h_results, h_status,
           h_response, h_raised>>

NoValue == [none |-> TRUE]

(***************************************************************************)
(* Characters                                                              *)
(***************************************************************************)
LowerCh == {"a", "b", "c", "d", "e", "f", "g", "h", "i", "j", "k", "l", "m",
            "n", "o", "p", "q", "r", "s", "t", "u", "v", "w", "x", "y", "z"}
UpperCh == {"A", "B", "C", "D", "E", "F", "G", "H", "I", "J", "K", "L", "M",
            "N", "O", "P", "Q", "R", "S", "T", "U", "V", "W", "X", "Y", "Z"}
DigitCh == {"0", "1", "2", "3", "4", "5", "6", "7", "8", "9"}
\* \w
WordCh == LowerCh \cup UpperCh \cup DigitCh \cup {"_"}
\* \s, and the characters str.strip() removes
SpaceCh == {" ", "\t", "\n", "\r", "\f"}
PunctCh == {"-", ".", "/", ":", "|", "$", "=", ">", "<", "(", ")", "{", "}",
            "'", "\"", "\\", ";", "&", "#", "*", ","}
Char == WordCh \cup SpaceCh \cup PunctCh
\* \S
NonSpaceCh == Char \ SpaceCh
\* . (without re.DOTALL)
AnyCh == Char \ {"\n"}

(***************************************************************************)
(* Regular expressions (re.compile, Pattern.search, Pattern.match)         *)
(***************************************************************************)
C(S) == [k |-> "set", s |-> S]
Cat(rs) == [k |-> "cat", rs |-> rs]
Alt(rs) == [k |-> "alt", rs |-> rs]
Plus(r) == [k |-> "plus", r |-> r]
Star(r) == [k |-> "star", r |-> r]
Opt(r) == [k |-> "opt", r |-> r]
Bol == [k |-> "bol"]
Eol == [k |-> "eol"]
Wb == [k |-> "wb"]
L(chars) == Cat([n \in 1..Len(chars) |-> C({chars[n]})])

IsWordAt(s, i) == i >= 1 /\ i <= Len(s) /\ s[i] \in WordCh

RECURSIVE Ends(_, _, _)
RECURSIVE EndsCat(_, _, _, _)
RECURSIVE EndsClosure(_, _, _)

\* The positions j such that r matches s[i..j-1]; positions run 1..Len(s)+1.
Ends(r, s, i) ==
  CASE r.k = "set" -> IF i <= Len(s) /\ s[i] \in r.s THEN {i + 1} ELSE {}
    [] r.k = "cat" -> EndsCat(r.rs, 1, s, {i})
    [] r.k = "alt" -> UNION {Ends(r.rs[n], s, i) : n \in 1..Len(r.rs)}
    [] r.k = "opt" -> {i} \cup Ends(r.r, s, i)
    [] r.k = "star" -> EndsClosure(r.r, s, {i})
    [] r.k = "plus" -> EndsClosure(r.r, s, Ends(r.r, s, i))
    [] r.k = "bol" -> IF i = 1 THEN {i} ELSE {}
    \* $ matches at the end and just before a newline that ends the string
    [] r.k = "eol" -> IF i = Len(s) + 1 \/ (i = Len(s) /\ s[i] = "\n")
                      THEN {i} ELSE {}
    [] r.k = "wb" -> IF IsWordAt(s, i - 1) # IsWordAt(s, i) THEN {i} ELSE {}

EndsCat(rs, n, s, P) ==
  IF n > Len(rs) \/ P = {} THEN P
  ELSE EndsCat(rs, n + 1, s, UNION {Ends(rs[n], s, p) : p \in P})

EndsClosure(r, s, P) ==
  LET N == P \cup UNION {Ends(r, s, p) : p \in P}
  IN IF N = P THEN P ELSE EndsClosure(r, s, N)

\* Pattern.search: a match starting anywhere
Search(r, s) == \E i \in 1..(Len(s) + 1) : Ends(r, s, i) # {}
\* Pattern.match: a match starting at the first character
Match(r, s) == Ends(r, s, 1) # {}

(***************************************************************************)
(* The pattern lists                                                       *)
(***************************************************************************)
SAFE_COMMAND_PATTERNS ==
  \* ^python3?\s+--version$
  << Cat(<<Bol, L(<<"p", "y", "t", "h", "o", "n">>), Opt(L(<<"3">>)), Plus(C(SpaceCh)), L(<<"-", "-", "v", "e", "r", "s", "i", "o", "n">>), Eol>>),
  \* ^pip3?\s+show\s+[\w\-]+$
     Cat(<<Bol, L(<<"p", "i", "p">>), Opt(L(<<"3">>)), Plus(C(SpaceCh)), L(<<"s", "h", "o", "w">>), Plus(C(SpaceCh)), Plus(C(WordCh \cup {"-"})), Eol>>),
  \* ^pip3?\s+list$
     Cat(<<Bol, L(<<"p", "i", "p">>), Opt(L(<<"3">>)), Plus(C(SpaceCh)), L(<<"l", "i", "s", "t">>), Eol>>),
  \* ^pip3?\s+check$
     Cat(<<Bol, L(<<"p", "i", "p">>), Opt(L(<<"3">>)), Plus(C(SpaceCh)), L(<<"c", "h", "e", "c", "k">>), Eol>>),
  \* ^which\s+\w+$
     Cat(<<Bol, L(<<"w", "h", "i", "c", "h">>), Plus(C(SpaceCh)), Plus(C(WordCh)), Eol>>),
  \* ^docker\s+ps(\s+-a)?$
     Cat(<<Bol, L(<<"d", "o", "c", "k", "e", "r">>), Plus(C(SpaceCh)), L(<<"p", "s">>), Opt(Cat(<<Plus(C(SpaceCh)), L(<<"-", "a">>)>>)), Eol>>),
  \* ^docker\s+images$
     Cat(<<Bol, L(<<"d", "o", "c", "k", "e", "r">>), Plus(C(SpaceCh)), L(<<"i", "m", "a", "g", "e", "s">>), Eol>>),
  \* ^docker\s+inspect\s+[\w\-]+$
     Cat(<<Bol, L(<<"d", "o", "c", "k", "e", "r">>), Plus(C(SpaceCh)), L(<<"i", "n", "s", "p", "e", "c", "t">>), Plus(C(SpaceCh)), Plus(C(WordCh \cup {"-"})), Eol>>),
  \* ^docker\s+logs\s+[\w\-]+$
     Cat(<<Bol, L(<<"d", "o", "c", "k", "e", "r">>), Plus(C(SpaceCh)), L(<<"l", "o", "g", "s">>), Plus(C(SpaceCh)), Plus(C(WordCh \cup {"-"})), Eol>>),
  \* ^docker\s+version$
     Cat(<<Bol, L(<<"d", "o", "c", "k", "e", "r">>), Plus(C(SpaceCh)), L(<<"v", "e", "r", "s", "i", "o", "n">>), Eol>>),
  \* ^docker\s+info$
     Cat(<<Bol, L(<<"d", "o", "c", "k", "e", "r">>), Plus(C(SpaceCh)), L(<<"i", "n", "f", "o">>), Eol>>),
  \* ^npm\s+list(\s+--depth=\d+)?$
     Cat(<<Bol, L(<<"n", "p", "m">>), Plus(C(SpaceCh)), L(<<"l", "i", "s", "t">>), Opt(Cat(<<Plus(C(SpaceCh)), L(<<"-", "-", "d", "e", "p", "t", "h", "=">>), Plus(C(DigitCh))>>)), Eol>>),
  \* ^npm\s+doctor$
     Cat(<<Bol, L(<<"n", "p", "m">>), Plus(C(SpaceCh)), L(<<"d", "o", "c", "t", "o", "r">>), Eol>>),
  \* ^npm\s+audit$
     Cat(<<Bol, L(<<"n", "p", "m">>), Plus(C(SpaceCh)), L(<<"a", "u", "d", "i", "t">>), Eol>>),
  \* ^node\s+--version$
     Cat(<<Bol, L(<<"n", "o", "d", "e">>), Plus(C(SpaceCh)), L(<<"-", "-", "v", "e", "r", "s", "i", "o", "n">>), Eol>>),
  \* ^npm\s+--version$
     Cat(<<Bol, L(<<"n", "p", "m">>), Plus(C(SpaceCh)), L(<<"-", "-", "v", "e", "r", "s", "i", "o", "n">>), Eol>>),
  \* ^ls(\s+-[lahrtR]+)?(\s+[\w\.\/\-]+)?$
     Cat(<<Bol, L(<<"l", "s">>), Opt(Cat(<<Plus(C(SpaceCh)), L(<<"-">>), Plus(C({"l", "a", "h", "r", "t", "R"}))>>)), Opt(Cat(<<Plus(C(SpaceCh)), Plus(C(WordCh \cup {".", "/", "-"}))>>)), Eol>>),
  \* ^cat\s+[\w\.\/\-]+$
     Cat(<<Bol, L(<<"c", "a", "t">>), Plus(C(SpaceCh)), Plus(C(WordCh \cup {".", "/", "-"})), Eol>>),
  \* ^pwd$
     Cat(<<Bol, L(<<"p", "w", "d">>), Eol>>),
  \* ^df\s+-h$
     Cat(<<Bol, L(<<"d", "f">>), Plus(C(SpaceCh)), L(<<"-", "h">>), Eol>>),
  \* ^free\s+-h$
     Cat(<<Bol, L(<<"f", "r", "e", "e">>), Plus(C(SpaceCh)), L(<<"-", "h">>), Eol>>),
  \* ^ps\s+aux(\s+--sort=[-\w]+)?(\s+\|\s+head\s+-\d+)?$
     Cat(<<Bol, L(<<"p", "s">>), Plus(C(SpaceCh)), L(<<"a", "u", "x">>), Opt(Cat(<<Plus(C(SpaceCh)), L(<<"-", "-", "s", "o", "r", "t", "=">>), Plus(C(WordCh \cup {"-"}))>>)), Opt(Cat(<<Plus(C(SpaceCh)), L(<<"|">>), Plus(C(SpaceCh)), L(<<"h", "e", "a", "d">>), Plus(C(SpaceCh)), L(<<"-">>), Plus(C(DigitCh))>>)), Eol>>),
  \* ^env$
     Cat(<<Bol, L(<<"e", "n", "v">>), Eol>>),
  \* ^printenv(\s+\w+)?$
     Cat(<<Bol, L(<<"p", "r", "i", "n", "t", "e", "n", "v">>), Opt(Cat(<<Plus(C(SpaceCh)), Plus(C(WordCh))>>)), Eol>>),
  \* ^echo\s+\$\w+$
     Cat(<<Bol, L(<<"e", "c", "h", "o">>), Plus(C(SpaceCh)), L(<<"$">>), Plus(C(WordCh)), Eol>>),
  \* ^uname\s+-[a-z]+$
     Cat(<<Bol, L(<<"u", "n", "a", "m", "e">>), Plus(C(SpaceCh)), L(<<"-">>), Plus(C(LowerCh)), Eol>>),
  \* ^systemctl\s+status\s+\w+$
     Cat(<<Bol, L(<<"s", "y", "s", "t", "e", "m", "c", "t", "l">>), Plus(C(SpaceCh)), L(<<"s", "t", "a", "t", "u", "s">>), Plus(C(SpaceCh)), Plus(C(WordCh)), Eol>>),
  \* ^journalctl\s+-u\s+\w+(\s+-n\s+\d+)?$
     Cat(<<Bol, L(<<"j", "o", "u", "r", "n", "a", "l", "c", "t", "l">>), Plus(C(SpaceCh)), L(<<"-", "u">>), Plus(C(SpaceCh)), Plus(C(WordCh)), Opt(Cat(<<Plus(C(SpaceCh)), L(<<"-", "n">>), Plus(C(SpaceCh)), Plus(C(DigitCh))>>)), Eol>>),
  \* ^git\s+status$
     Cat(<<Bol, L(<<"g", "i", "t">>), Plus(C(SpaceCh)), L(<<"s", "t", "a", "t", "u", "s">>), Eol>>),
  \* ^git\s+log(\s+--\S+)*$
     Cat(<<Bol, L(<<"g", "i", "t">>), Plus(C(SpaceCh)), L(<<"l", "o", "g">>), Star(Cat(<<Plus(C(SpaceCh)), L(<<"-", "-">>), Plus(C(NonSpaceCh))>>)), Eol>>),
  \* ^git\s+branch(\s+-[a-z]+)?$
     Cat(<<Bol, L(<<"g", "i", "t">>), Plus(C(SpaceCh)), L(<<"b", "r", "a", "n", "c", "h">>), Opt(Cat(<<Plus(C(SpaceCh)), L(<<"-">>), Plus(C(LowerCh))>>)), Eol>>),
  \* ^curl\s+-[vIsf]+\s+https?://\S+$
     Cat(<<Bol, L(<<"c", "u", "r", "l">>), Plus(C(SpaceCh)), L(<<"-">>), Plus(C({"v", "I", "s", "f"})), Plus(C(SpaceCh)), L(<<"h", "t", "t", "p">>), Opt(L(<<"s">>)), L(<<":", "/", "/">>), Plus(C(NonSpaceCh)), Eol>>),
  \* ^ping\s+-c\s+\d+\s+\S+$
     Cat(<<Bol, L(<<"p", "i", "n", "g">>), Plus(C(SpaceCh)), L(<<"-", "c">>), Plus(C(SpaceCh)), Plus(C(DigitCh)), Plus(C(SpaceCh)), Plus(C(NonSpaceCh)), Eol>>),
  \* ^nslookup\s+\S+$
     Cat(<<Bol, L(<<"n", "s", "l", "o", "o", "k", "u", "p">>), Plus(C(SpaceCh)), Plus(C(NonSpaceCh)), Eol>>),
  \* ^dig\s+\S+$
     Cat(<<Bol, L(<<"d", "i", "g">>), Plus(C(SpaceCh)), Plus(C(NonSpaceCh)), Eol>>),
  \* ^netstat\s+-[a-z]+$
     Cat(<<Bol, L(<<"n", "e", "t", "s", "t", "a", "t">>), Plus(C(SpaceCh)), L(<<"-">>), Plus(C(LowerCh)), Eol>>),
  \* ^ss\s+-[a-z]+$
     Cat(<<Bol, L(<<"s", "s">>), Plus(C(SpaceCh)), L(<<"-">>), Plus(C(LowerCh)), Eol>>) >>
FORBIDDEN_PATTERNS ==
  \* rm\s+-rf
  << Cat(<<L(<<"r", "m">>), Plus(C(SpaceCh)), L(<<"-", "r", "f">>)>>),
  \* sudo\s+rm
     Cat(<<L(<<"s", "u", "d", "o">>), Plus(C(SpaceCh)), L(<<"r", "m">>)>>),
  \* :\(\)\{.*\}
     Cat(<<L(<<":", "(", ")", "{">>), Star(C(AnyCh)), L(<<"}">>)>>),
  \* >\s*/dev/sd
     Cat(<<L(<<">">>), Star(C(SpaceCh)), L(<<"/", "d", "e", "v", "/", "s", "d">>)>>),
  \* mkfs\.
     L(<<"m", "k", "f", "s", ".">>),
  \* dd\s+if=
     Cat(<<L(<<"d", "d">>), Plus(C(SpaceCh)), L(<<"i", "f", "=">>)>>),
  \* \bshutdown\b
     Cat(<<Wb, L(<<"s", "h", "u", "t", "d", "o", "w", "n">>), Wb>>),
  \* \breboot\b
     Cat(<<Wb, L(<<"r", "e", "b", "o", "o", "t">>), Wb>>),
  \* \bhalt\b
     Cat(<<Wb, L(<<"h", "a", "l", "t">>), Wb>>),
  \* curl\s+.*\|\s*(ba)?sh
     Cat(<<L(<<"c", "u", "r", "l">>), Plus(C(SpaceCh)), Star(C(AnyCh)), L(<<"|">>), Star(C(SpaceCh)), Opt(L(<<"b", "a">>)), L(<<"s", "h">>)>>),
  \* wget\s+.*\|\s*(ba)?sh
     Cat(<<L(<<"w", "g", "e", "t">>), Plus(C(SpaceCh)), Star(C(AnyCh)), L(<<"|">>), Star(C(SpaceCh)), Opt(L(<<"b", "a">>)), L(<<"s", "h">>)>>),
  \* base64\s+-d.*\|
     Cat(<<L(<<"b", "a", "s", "e", "6", "4">>), Plus(C(SpaceCh)), L(<<"-", "d">>), Star(C(AnyCh)), L(<<"|">>)>>),
  \* eval\s+
     Cat(<<L(<<"e", "v", "a", "l">>), Plus(C(SpaceCh))>>),
  \* exec\s+
     Cat(<<L(<<"e", "x", "e", "c">>), Plus(C(SpaceCh))>>) >>

COMPILED_SAFE == SAFE_COMMAND_PATTERNS
COMPILED_FORBIDDEN == FORBIDDEN_PATTERNS

(***************************************************************************)
(* str.strip()                                                             *)
(***************************************************************************)
RECURSIVE LStrip(_)
LStrip(s) == IF s # <<>> /\ Head(s) \in SpaceCh THEN LStrip(Tail(s)) ELSE s
RECURSIVE RStrip(_)
RStrip(s) ==
  IF s # <<>> /\ s[Len(s)] \in SpaceCh THEN RStrip(SubSeq(s, 1, Len(s) - 1))
  ELSE s
Strip(s) == RStrip(LStrip(s))

(***************************************************************************)
(* shlex.split(s): POSIX mode, whitespace_split, no comment characters     *)
(***************************************************************************)
ShlexWhitespace == {" ", "\t", "\r", "\n"}
ShlexQuotes == {"'", "\""}
ShlexEscape == {"\\"}
ShlexEscapedQuotes == {"\""}

ShlexInit ==
  [state |-> " ", escapedstate |-> " ", token |-> <<>>, quoted |-> FALSE,
   tokens |-> <<>>]

\* one character read by shlex.read_token
ShlexStep(a, ch) ==
  CASE a.state = " " ->
         IF ch \in ShlexWhitespace THEN a
         ELSE IF ch \in ShlexEscape
           THEN [a EXCEPT !.escapedstate = "a", !.state = ch]
         ELSE IF ch \in ShlexQuotes THEN [a EXCEPT !.state = ch]
         ELSE [a EXCEPT !.token = <<ch>>, !.state = "a"]
    [] a.state \in ShlexQuotes ->
         IF ch = a.state THEN [a EXCEPT !.quoted = TRUE, !.state = "a"]
         ELSE IF ch \in ShlexEscape /\ a.state \in ShlexEscapedQuotes
           THEN [a EXCEPT !.quoted = TRUE, !.escapedstate = a.state,
                          !.state = ch]
         ELSE [a EXCEPT !.quoted = TRUE, !.token = Append(@, ch)]
    [] a.state \in ShlexEscape ->
         LET kept == IF a.escapedstate \in ShlexQuotes /\ ch # a.state
                        /\ ch # a.escapedstate
                     THEN Append(a.token, a.state) ELSE a.token
         IN [a EXCEPT !.token = Append(kept, ch), !.state = a.escapedstate]
    [] a.state = "a" ->
         IF ch \in ShlexWhitespace
           THEN IF a.token # <<>> \/ a.quoted
                THEN [a EXCEPT !.state = " ", !.token = <<>>,
                               !.quoted = FALSE,
                               !.tokens = Append(@, a.token)]
                ELSE [a EXCEPT !.state = " "]
         ELSE IF ch \in ShlexQuotes THEN [a EXCEPT !.state = ch]
         ELSE IF ch \in ShlexEscape
           THEN [a EXCEPT !.escapedstate = "a", !.state = ch]
         ELSE [a EXCEPT !.token = Append(@, ch)]

RECURSIVE ShlexRun(_, _, _)
ShlexRun(s, i, a) ==
  IF i > Len(s) THEN a ELSE ShlexRun(s, i + 1, ShlexStep(a, s[i]))

\* Faulty variant: a quotation or escape left open at the end of the input
\* is closed silently
ShlexSplit_Lenient(s) ==
  LET a == ShlexRun(s, 1, ShlexInit)
  IN IF a.state \in ShlexQuotes \cup ShlexEscape \/ a.token # <<>> \/ a.quoted
       THEN [ok |-> TRUE, exc |-> "none", argv |-> Append(a.tokens, a.token)]
     ELSE [ok |-> TRUE, exc |-> "none", argv |-> a.tokens]

\* [ok |-> TRUE, argv |-> tokens] or [ok |-> FALSE, exc |-> "ValueError"]
ShlexSplit(s) ==
  LET a == ShlexRun(s, 1, ShlexInit)
  IN IF a.state \in ShlexQuotes \cup ShlexEscape
       THEN [ok |-> FALSE, exc |-> "ValueError", argv |-> <<>>]
     ELSE IF a.state = "a" /\ (a.token # <<>> \/ a.quoted)
       THEN [ok |-> TRUE, exc |-> "none", argv |-> Append(a.tokens, a.token)]
     ELSE [ok |-> TRUE, exc |-> "none", argv |-> a.tokens]

(***************************************************************************)
(* Exception classes: the repository's, and the library classes its except *)
(* clauses name or let through.                                            *)
(***************************************************************************)
ExcParent(c) ==
  CASE c = "RateLimitError" -> "APIError"
    [] c = "APIError" -> "Exception"
    [] c = "JSONDecodeError" -> "ValueError"
    [] c = "ValueError" -> "Exception"
    [] c = "KeyError" -> "LookupError"
    [] c = "IndexError" -> "LookupError"
    [] c = "LookupError" -> "Exception"
    [] c = "TypeError" -> "Exception"
    [] c = "AttributeError" -> "Exception"
    [] c = "HTTPStatusError" -> "HTTPError"
    [] c = "TimeoutException" -> "TransportError"
    [] c = "ConnectError" -> "TransportError"
    [] c = "TransportError" -> "HTTPError"
    [] c = "HTTPError" -> "Exception"
    [] c = "FileNotFoundError" -> "OSError"
    [] c = "PermissionError" -> "OSError"
    [] c = "OSError" -> "Exception"
    [] c = "TimeoutError" -> "Exception"
    [] c = "Exception" -> "BaseException"
    [] OTHER -> "object"

RECURSIVE IsInstance(_, _)
IsInstance(e, c) ==
  IF e = c THEN TRUE
  ELSE IF e \in {"object", "none"} THEN FALSE
  ELSE IsInstance(ExcParent(e), c)

(***************************************************************************)
(* SafeCommandExecutor                                                     *)
(***************************************************************************)
_is_forbidden(c) == \E n \in 1..Len(COMPILED_FORBIDDEN) : Search(COMPILED_FORBIDDEN[n], c)

_is_safe(c) == \E n \in 1..Len(COMPILED_SAFE) : Match(COMPILED_SAFE[n], Strip(c))

\* The inputs: concatenations of at most MaxFrags fragments.
MaxFrags == 3
Frags == { <<" ">>, <<"l", "s">>, <<"h", "a", "l", "t">>, <<"e", "v", "a", "l">>,
           <<"r", "m">>, <<"-", "r", "f">>, <<"'">>, <<"d", "i", "g">>, <<";">> }
RECURSIVE Concats(_)
Concats(n) ==
  IF n = 0 THEN {<<>>}
  ELSE LET P == Concats(n - 1) IN P \cup {p \o f : p \in P, f \in Frags}
Commands == Concats(MaxFrags)

\* What the host can answer to create_subprocess_exec(*argv): a process, or
\* an exception.
LaunchFaults == {"FileNotFoundError", "PermissionError", "OSError", "ValueError"}
\* No executable has the empty name: that launch always fails.
CanSpawn(av) == av[1] # <<>>
\* Faulty variant: the command is handed to a shell, as
\* create_subprocess_shell would
create_subprocess_shell(av) ==
  [program |-> <<"s", "h">>, args |-> <<<<"-", "c">>>> \o av, shell |-> TRUE,
   state |-> "running"]

\* create_subprocess_exec(*argv): the program is the first positional
\* argument and the others are its arguments, passed to exec as they are
create_subprocess_exec(av) ==
  [program |-> av[1], args |-> Tail(av), shell |-> FALSE, state |-> "running"]

\* What can end the wait for proc.communicate() other than completion.
RuntimeFaults == {"OSError"}
\* Process.returncode: the exit status, or -N for a child ended by signal N.
ExitStatuses == {0, 1, 255}
Signals == {1, 2, 6, 9}
ReturnCodes == ExitStatuses \cup {0 - sig : sig \in Signals}
\* (stdout, stderr) after decode(errors="replace").strip()
ProcOutputs == {<<"", "">>, <<"out", "">>, <<"", "err">>}

Result(c, out, err, code, safe) ==
  [command |-> c, stdout |-> out, stderr |-> err, exit_code |-> code,
   safe |-> safe]

BlockedForbidden(c) ==
  Result(c, "", "BLOCKED: Command matches a forbidden pattern and will never execute.", -1, FALSE)

BlockedWhitelist(c) ==
  Result(c, "", <<"BLOCKED (safe_mode=True): '", c, "' is not in the diagnostic whitelist. Set safe_mode=false to allow non-diagnostic commands.">>, -2, FALSE)

\* Faulty variant: the closing "except Exception" clause is missing
RunExcept_NoCatchAll(e, c, safe, av) ==
  IF IsInstance(e, "TimeoutError")
    THEN [kind |-> "timeout", returns |-> TRUE, kills |-> TRUE,
          result |-> Result(c, "", "TIMEOUT: Command exceeded 15-second limit and was terminated.", -3, safe)]
  ELSE IF IsInstance(e, "FileNotFoundError")
    THEN [kind |-> "not_found", returns |-> TRUE, kills |-> FALSE,
          result |-> Result(c, "", <<"NOT FOUND: '", av[1], "' is not installed or not in PATH.">>, -6, safe)]
  ELSE [kind |-> "raised", returns |-> FALSE, kills |-> FALSE, result |-> NoValue]

\* The except clauses of step 4, in the order written.
\* [kind, returns, result, kills]
RunExcept(e, c, safe, av) ==
  IF IsInstance(e, "TimeoutError")
    THEN [kind |-> "timeout", returns |-> TRUE, kills |-> TRUE,
          result |-> Result(c, "", "TIMEOUT: Command exceeded 15-second limit and was terminated.", -3, safe)]
  ELSE IF IsInstance(e, "FileNotFoundError")
    THEN [kind |-> "not_found", returns |-> TRUE, kills |-> FALSE,
          result |-> Result(c, "", <<"NOT FOUND: '", av[1], "' is not installed or not in PATH.">>, -6, safe)]
  ELSE IF IsInstance(e, "Exception")
    THEN [kind |-> "execution_error", returns |-> TRUE, kills |-> FALSE,
          result |-> Result(c, "", <<"EXECUTION ERROR: ", e>>, -4, safe)]
  ELSE [kind |-> "raised", returns |-> FALSE, kills |-> FALSE, result |-> NoValue]

Return(kind, res) ==
  /\ x_pc' = "done"
  /\ x_result' = res
  /\ x_outcome' = kind
  /\ x_raised' = "none"

Handle(h, e) ==
  /\ x_pc' = "done"
  /\ x_result' = h.result
  /\ x_outcome' = h.kind
  /\ x_raised' = IF h.returns THEN "none" ELSE e

KillProc(ps) ==
  IF ps = <<>> THEN ps ELSE [ps EXCEPT ![Len(ps)].state = "killed"]

\* Faulty variant: the negation of is_safe is lost
SafeModeBlocks_NegationLost(m, safe) == m /\ safe

\* Step 2: in safe_mode, only whitelisted commands proceed
SafeModeBlocks(m, safe) == m /\ ~safe

\* run, from its entry to the await of create_subprocess_exec
run_call ==
  /\ x_pc = "idle"
  /\ \E c \in Commands, m \in BOOLEAN :
       LET c1 == Strip(c)
           safe == _is_safe(c1)
           sp == ShlexSplit(c1)
       IN /\ command' = c
          /\ safe_mode' = m
          /\ cmd' = c1
          /\ IF _is_forbidden(c1)
               THEN /\ Return("blocked_forbidden", BlockedForbidden(c1))
                    /\ is_safe' = FALSE
                    /\ UNCHANGED <<argv, exec_calls, procs>>
             ELSE IF SafeModeBlocks(m, safe)
               THEN /\ Return("blocked_whitelist", BlockedWhitelist(c1))
                    /\ is_safe' = safe
                    /\ UNCHANGED <<argv, exec_calls, procs>>
             ELSE IF ~sp.ok
               THEN /\ Return("parse_error", Result(c1, "", <<"PARSE ERROR: Could not tokenize command - ", sp.exc>>, -5, safe))
                    /\ is_safe' = safe
                    /\ UNCHANGED <<argv, exec_calls, procs>>
             ELSE IF sp.argv = <<>>
               THEN /\ Return("parse_error", Result(c1, "", "PARSE ERROR: Empty command after tokenisation.", -5, safe))
                    /\ is_safe' = safe
                    /\ argv' = sp.argv
                    /\ UNCHANGED <<exec_calls, procs>>
             ELSE /\ is_safe' = safe
                  /\ argv' = sp.argv
                  /\ exec_calls' = Append(exec_calls, sp.argv)
                  /\ \/ /\ CanSpawn(sp.argv)
                        /\ procs' = Append(procs, create_subprocess_exec(sp.argv))
                        /\ x_pc' = "communicate"
                        /\ UNCHANGED <<x_result, x_raised, x_outcome>>
                     \/ \E e \in LaunchFaults :
                          /\ Handle(RunExcept(e, c1, safe, sp.argv), e)
                          /\ UNCHANGED procs
  /\ UNCHANGED <<avars, rvars, tvars, jvars, kvars, mvars, hvars, svars>>

\* proc.communicate() finishes within the 15 seconds
run_complete ==
  /\ x_pc = "communicate"
  /\ \E rc \in ReturnCodes, o \in ProcOutputs :
       /\ procs' = [procs EXCEPT ![Len(procs)].state = "exited"]
       /\ Return("completed", Result(cmd, o[1], o[2], rc, is_safe))
  /\ UNCHANGED <<command, safe_mode, cmd, is_safe, argv, exec_calls>>
  /\ UNCHANGED <<avars, rvars, tvars, jvars, kvars, mvars, hvars, svars>>

\* asyncio.wait_for gives up after 15 seconds
run_timeout ==
  /\ x_pc = "communicate"
  /\ LET h == RunExcept("TimeoutError", cmd, is_safe, argv)
     IN /\ Handle(h, "TimeoutError")
        /\ procs' = IF h.kills THEN KillProc(procs) ELSE procs
  /\ UNCHANGED <<command, safe_mode, cmd, is_safe, argv, exec_calls>>
  /\ UNCHANGED <<avars, rvars, tvars, jvars, kvars, mvars, hvars, svars>>

\* any other fault while waiting for the process
run_fault ==
  /\ x_pc = "communicate"
  /\ \E e \in RuntimeFaults :
       LET h == RunExcept(e, cmd, is_safe, argv)
       IN /\ Handle(h, e)
          /\ procs' = IF h.kills THEN KillProc(procs) ELSE procs
  /\ UNCHANGED <<command, safe_mode, cmd, is_safe, argv, exec_calls>>
  /\ UNCHANGED <<avars, rvars, tvars, jvars, kvars, mvars, hvars, svars>>

(***************************************************************************)
(* SafeCommandExecutor.classify_commands                                   *)
(***************************************************************************)
\* the command lists classified: at most MaxBatch of these strings
MaxBatch == 3
ClassifyCommands ==
  { <<>>,
    <<"l", "s">>,
    <<" ", "l", "s", " ">>,
    <<"l", "s", " ", "h", "a", "l", "t">>,
    <<"h", "a", "l", "t">>,
    <<"r", "m">>,
    <<"e", "v", "a", "l", " ">>,
    <<"l", "s", " ", "e", "v", "a", "l", " ">> }
RECURSIVE ListsUpTo(_)
ListsUpTo(n) ==
  IF n = 0 THEN {<<>>}
  ELSE LET P == ListsUpTo(n - 1)
       IN P \cup {Append(p, c) : p \in P, c \in ClassifyCommands}
CommandLists == ListsUpTo(MaxBatch)

\* Faulty variant: the safe bucket does not leave out forbidden commands
classify_commands_SafeKeepsForbidden(cs) ==
  LET InSafe(c) == _is_safe(c)
      InUnsafe(c) == ~_is_safe(c) /\ ~_is_forbidden(c)
      InForbidden(c) == _is_forbidden(c)
  IN [safe |-> SelectSeq(cs, InSafe),
      unsafe |-> SelectSeq(cs, InUnsafe),
      forbidden |-> SelectSeq(cs, InForbidden)]

\* run(c) returns the forbidden-blocked result: steps 1 of run, on cmd
RunBlocksForbidden(c) == _is_forbidden(Strip(c))

\* run(c) with safe_mode=true returns one of the two blocked results
RunBlocksInSafeMode(c) ==
  RunBlocksForbidden(c) \/ SafeModeBlocks(TRUE, _is_safe(Strip(c)))

\* the three list comprehensions of classify_commands
classify_commands(cs) ==
  LET InSafe(c) == _is_safe(c) /\ ~_is_forbidden(c)
      InUnsafe(c) == ~_is_safe(c) /\ ~_is_forbidden(c)
      InForbidden(c) == _is_forbidden(c)
  IN [safe |-> SelectSeq(cs, InSafe),
      unsafe |-> SelectSeq(cs, InUnsafe),
      forbidden |-> SelectSeq(cs, InForbidden)]

\* classify_commands(commands) is called and returns
classify_commands_call ==
  /\ k_pc = "idle"
  /\ \E cs \in CommandLists :
       /\ commands' = cs
       /\ k_out' = classify_commands(cs)
  /\ k_pc' = "done"
  /\ UNCHANGED <<xvars, avars, rvars, tvars, jvars, mvars, hvars, svars>>

(***************************************************************************)
(* Invocations of run that overlap: POST /execute awaits run, so the       *)
(* handlers of two requests interleave at run's awaits.  Each invocation   *)
(* has its own locals; the host's process table is what they share.        *)
(***************************************************************************)
MaxRuns == 2
RunIds == 1..MaxRuns

\* Commands that pass steps 1 to 3 of run in either mode
OverlapCommands == {<<"l", "s">>, <<"l", "s", " ", "l", "s">>}

\* Faulty variant: proc is shared by the invocations (the process spawned
\* last), not a local of each
KillTarget_Shared(i, rp, tbl) == Len(tbl)

\* proc.kill(): proc is the local the invocation bound at its spawn
KillTarget(i, rp, tbl) == rp[i]

\* Process.kill() of the k-th process by invocation i; a process that is
\* gone raises ProcessLookupError, which "except Exception: pass" drops
Kill(tbl, k, i) ==
  IF k \in DOMAIN tbl /\ tbl[k].state = "running"
    THEN [tbl EXCEPT ![k].state = "killed", ![k].killed_by = i]
  ELSE tbl

RunReturn(i, kind, res) ==
  /\ r_pc' = [r_pc EXCEPT ![i] = "done"]
  /\ r_result' = [r_result EXCEPT ![i] = res]
  /\ r_outcome' = [r_outcome EXCEPT ![i] = kind]

\* invocation i: run, from its entry to the await of create_subprocess_exec
runs_call(i) ==
  /\ r_pc[i] = "idle"
  /\ \E c \in OverlapCommands, m \in BOOLEAN :
       LET c1 == Strip(c)
           sp == ShlexSplit(c1)
       IN /\ ~_is_forbidden(c1)
          /\ ~SafeModeBlocks(m, _is_safe(c1))
          /\ sp.ok /\ sp.argv # <<>>
          /\ r_cmd' = [r_cmd EXCEPT ![i] = c1]
          /\ \/ /\ CanSpawn(sp.argv)
                /\ children' = Append(children,
                       [owner |-> i, argv |-> sp.argv, state |-> "running",
                        killed_by |-> 0])
                /\ r_proc' = [r_proc EXCEPT ![i] = Len(children) + 1]
                /\ r_pc' = [r_pc EXCEPT ![i] = "communicate"]
                /\ UNCHANGED <<r_result, r_outcome>>
             \/ \E e \in LaunchFaults :
                  LET h == RunExcept(e, c1, _is_safe(c1), sp.argv)
                  IN /\ RunReturn(i, h.kind, h.result)
                     /\ UNCHANGED <<r_proc, children>>
  /\ UNCHANGED <<xvars, avars, tvars, jvars, kvars, mvars, hvars, svars>>

\* invocation i: proc.communicate() finishes within the 15 seconds
runs_complete(i) ==
  /\ r_pc[i] = "communicate"
  /\ \E rc \in ReturnCodes, o \in ProcOutputs :
       /\ children' = [children EXCEPT ![r_proc[i]].state = "exited"]
       /\ RunReturn(i, "completed", Result(r_cmd[i], o[1], o[2], rc, _is_safe(r_cmd[i])))
  /\ UNCHANGED <<r_cmd, r_proc>>
  /\ UNCHANGED <<xvars, avars, tvars, jvars, kvars, mvars, hvars, svars>>

\* invocation i: asyncio.wait_for gives up after 15 seconds
runs_timeout(i) ==
  /\ r_pc[i] = "communicate"
  /\ LET h == RunExcept("TimeoutError", r_cmd[i], _is_safe(r_cmd[i]),
                        children[r_proc[i]].argv)
     IN /\ RunReturn(i, h.kind, h.result)
        /\ children' = IF h.kills
                         THEN Kill(children, KillTarget(i, r_proc, children), i)
                       ELSE children
  /\ UNCHANGED <<r_cmd, r_proc>>
  /\ UNCHANGED <<xvars, avars, tvars, jvars, kvars, mvars, hvars, svars>>

\* invocation i: any other fault while waiting for the process
runs_fault(i) ==
  /\ r_pc[i] = "communicate"
  /\ \E e \in RuntimeFaults :
       LET h == RunExcept(e, r_cmd[i], _is_safe(r_cmd[i]),
                          children[r_proc[i]].argv)
       IN /\ RunReturn(i, h.kind, h.result)
          /\ children' = IF h.kills
                           THEN Kill(children, KillTarget(i, r_proc, children), i)
                         ELSE children
  /\ UNCHANGED <<r_cmd, r_proc>>
  /\ UNCHANGED <<xvars, avars, tvars, jvars, kvars, mvars, hvars, svars>>

(***************************************************************************)
(* claude_agent.py: constants                                              *)
(***************************************************************************)
MAX_RETRIES == 3
\* BASE_BACKOFF = 1.5 seconds, in milliseconds
BASE_BACKOFF == 1500
MODEL == "claude-3-sonnet-20240229"

\* random.uniform(0.0, 0.5), in milliseconds: the two ends of the interval
Jitters == {0, 500}

\* BASE_BACKOFF ** n, in milliseconds
RECURSIVE BackoffPow(_)
BackoffPow(n) ==
  IF n <= 1 THEN BASE_BACKOFF ELSE (BackoffPow(n - 1) * BASE_BACKOFF) \div 1000

(***************************************************************************)
(* What the remote endpoint can answer to one POST                         *)
(***************************************************************************)
Statuses == {200, 204, 301, 400, 401, 429, 500, 503}

\* The retry-after header of a 429: absent, a number of seconds, or text
\* float() rejects (an HTTP date).
RetryAfterHeaders ==
  { [present |-> FALSE, numeric |-> FALSE, ms |-> 0],
    [present |-> TRUE, numeric |-> TRUE, ms |-> 0],
    [present |-> TRUE, numeric |-> TRUE, ms |-> 2000],
    [present |-> TRUE, numeric |-> TRUE, ms |-> 120000],
    [present |-> TRUE, numeric |-> FALSE, ms |-> 0] }
NoHeader == [present |-> FALSE, numeric |-> FALSE, ms |-> 0]

\* The record inside the reply text, by operation.
AnalysisFields ==
  {"error_type", "error_category", "severity", "confidence",
   "reasoning_summary", "root_cause", "explanation", "fix_steps",
   "safe_commands", "prevention_tips", "model_used"}
FeedbackFields == {"fix_worked", "analysis", "next_steps", "still_broken"}

\* data["content"][0]["text"] of the replies to analyze
AnalysisReplies ==
  {
    \* x
    <<"x">>,
    \* }{
    <<"}", "{">>,
    \* <json>{"severity":"low","error_type":"ImportError"}</json>
    <<"<", "j", "s", "o", "n", ">", "{", "\"", "s", "e", "v", "e", "r",
      "i", "t", "y", "\"", ":", "\"", "l", "o", "w", "\"", ",", "\"", "e",
      "r", "r", "o", "r", "_", "t", "y", "p", "e", "\"", ":", "\"", "I",
      "m", "p", "o", "r", "t", "E", "r", "r", "o", "r", "\"", "}", "<",
      "/", "j", "s", "o", "n", ">">>,
    \* {"error_category":"java","model-used":"x"}
    <<"{", "\"", "e", "r", "r", "o", "r", "_", "c", "a", "t", "e", "g",
      "o", "r", "y", "\"", ":", "\"", "j", "a", "v", "a", "\"", ",", "\"",
      "m", "o", "d", "e", "l", "-", "u", "s", "e", "d", "\"", ":", "\"",
      "x", "\"", "}">>,
    \* <json>[1]</json>
    <<"<", "j", "s", "o", "n", ">", "[", "1", "]", "<", "/", "j", "s", "o",
      "n", ">">>,
    \* <json>{"a":1</json>
    <<"<", "j", "s", "o", "n", ">", "{", "\"", "a", "\"", ":", "1", "<",
      "/", "j", "s", "o", "n", ">">>,
    \* <json>{}</json>
    <<"<", "j", "s", "o", "n", ">", "{", "}", "<", "/", "j", "s", "o", "n",
      ">">> }

\* data["content"][0]["text"] of the replies to evaluate_fix
FeedbackReplies ==
  {
    \* x
    <<"x">>,
    \* <json>{"fix_worked":true,"analysis":"resolved","next_steps":[],"stil
    \* l_broken":false}</json>
    <<"<", "j", "s", "o", "n", ">", "{", "\"", "f", "i", "x", "_", "w",
      "o", "r", "k", "e", "d", "\"", ":", "t", "r", "u", "e", ",", "\"",
      "a", "n", "a", "l", "y", "s", "i", "s", "\"", ":", "\"", "r", "e",
      "s", "o", "l", "v", "e", "d", "\"", ",", "\"", "n", "e", "x", "t",
      "_", "s", "t", "e", "p", "s", "\"", ":", "[", "]", ",", "\"", "s",
      "t", "i", "l", "l", "_", "b", "r", "o", "k", "e", "n", "\"", ":",
      "f", "a", "l", "s", "e", "}", "<", "/", "j", "s", "o", "n", ">">>,
    \* <json>{"fix_worked":true}</json>
    <<"<", "j", "s", "o", "n", ">", "{", "\"", "f", "i", "x", "_", "w",
      "o", "r", "k", "e", "d", "\"", ":", "t", "r", "u", "e", "}", "<",
      "/", "j", "s", "o", "n", ">">>,
    \* {"analysis":"x"}
    <<"{", "\"", "a", "n", "a", "l", "y", "s", "i", "s", "\"", ":", "\"",
      "x", "\"", "}">>,
    \* <json>[1]</json>
    <<"<", "j", "s", "o", "n", ">", "[", "1", "]", "<", "/", "j", "s", "o",
      "n", ">">>,
    \* <json>{"a":1</json>
    <<"<", "j", "s", "o", "n", ">", "{", "\"", "a", "\"", ":", "1", "<",
      "/", "j", "s", "o", "n", ">">>,
    \* <json>{}</json>
    <<"<", "j", "s", "o", "n", ">", "{", "}", "<", "/", "j", "s", "o", "n",
      ">">> }

ReplyTextsOf(o) == IF o = "analyze" THEN AnalysisReplies ELSE FeedbackReplies

\* The body of a response, described by how far decoding it gets:
\*   not_json       response.json() fails
\*   json_list      the JSON value is a list, not an object
\*   no_content     an object without "content"
\*   content_empty  "content" is an empty list
\*   no_text        content[0] is an object without "text"
\*   text           content[0]["text"] is the field text
\*   usage_null     the same, and "usage": null beside "content"
BodyKinds ==
  {"not_json", "json_list", "no_content", "content_empty", "no_text",
   "text", "usage_null"}

Bodies(o) ==
  {[kind |-> k, text |-> <<>>] : k \in BodyKinds \ {"text", "usage_null"}}
  \cup {[kind |-> k, text |-> t] : k \in {"text", "usage_null"}, t \in ReplyTextsOf(o)}

NoBody == [kind |-> "not_json", text |-> <<>>]

\* request_id: the default "", and an id longer than the 8 characters logged
RequestIds == {<<>>, <<"7", "f", "3", "a", "9", "c", "0", "e", "-", "1", "b", "2">>}

\* One POST's outcome: a response, or an exception of the transport.
Responses(o) ==
  {[exc |-> "none", status |-> s, retry_after |-> NoHeader, body |-> NoBody] :
      s \in Statuses \ {200, 429}}
  \cup {[exc |-> "none", status |-> 429, retry_after |-> h, body |-> NoBody] :
      h \in RetryAfterHeaders}
  \cup {[exc |-> "none", status |-> 200, retry_after |-> NoHeader, body |-> b] :
      b \in Bodies(o)}
TransportFaults == {"TimeoutException", "ConnectError"}
PostOutcomes(o) ==
  Responses(o)
  \cup {[exc |-> e, status |-> 0, retry_after |-> NoHeader, body |-> NoBody] :
      e \in TransportFaults}

\* Faulty variant: only 200 counts as success
IsSuccess_Only200(status) == status = 200

\* Response.is_success, which response.raise_for_status() tests
IsSuccess(status) == status >= 200 /\ status <= 299

\* Faulty variant: every status from 400 up is retried as a server error
StatusClass_Retry4xx(status) ==
  IF status = 429 THEN "rate_limited"
  ELSE IF status >= 400 THEN "server_error"
  ELSE IF IsSuccess(status) THEN "success"
  ELSE "error"

\* The branch of the loop body a response's status takes
StatusClass(status) ==
  IF status = 429 THEN "rate_limited"
  ELSE IF status >= 500 THEN "server_error"
  ELSE IF IsSuccess(status) THEN "success"
  ELSE "error"

\* Faulty variant: the loop runs once more
LoopContinues_OffByOne(n) == n <= MAX_RETRIES

\* for attempt in range(MAX_RETRIES)
LoopContinues(n) == n < MAX_RETRIES

(***************************************************************************)
(* Input helpers                                                           *)
(***************************************************************************)
MaxTextLen == 5
MaxBudget == 6
TextCh == {"a", "b"}
RECURSIVE TextsOfLen(_)
TextsOfLen(n) ==
  IF n = 0 THEN {<<>>}
  ELSE {Append(t, ch) : t \in TextsOfLen(n - 1), ch \in TextCh}
Texts == UNION {TextsOfLen(n) : n \in 0..MaxTextLen}
Budgets == 0..MaxBudget

\* str(n) for n >= 0
RECURSIVE IntStr(_)
IntStr(n) ==
  LET digit == CASE n % 10 = 0 -> "0" [] n % 10 = 1 -> "1" [] n % 10 = 2 -> "2"
                 [] n % 10 = 3 -> "3" [] n % 10 = 4 -> "4" [] n % 10 = 5 -> "5"
                 [] n % 10 = 6 -> "6" [] n % 10 = 7 -> "7" [] n % 10 = 8 -> "8"
                 [] OTHER -> "9"
  IN IF n < 10 THEN <<digit>> ELSE Append(IntStr(n \div 10), digit)

\* text[:stop] and text[start:] with Python's rules: a negative index counts
\* from the end, and the bounds are clipped to the text.  -0 is 0.
ClipIndex(t, k) ==
  IF k < 0 THEN (IF Len(t) + k < 0 THEN 0 ELSE Len(t) + k)
  ELSE (IF k > Len(t) THEN Len(t) ELSE k)
SliceTo(t, stop) == SubSeq(t, 1, ClipIndex(t, stop))
SliceFrom(t, start) == SubSeq(t, ClipIndex(t, start) + 1, Len(t))

\* "\n\n... [" and " characters truncated - middle stack frames omitted]
\* ...\n\n" (the dash of the source is one character, U+2014)
MarkerHead ==
  <<"\n", "\n", ".", ".", ".", " ", "[">>
MarkerTail ==
  <<" ", "c", "h", "a", "r", "a", "c", "t", "e", "r", "s", " ", "t", "r",
    "u", "n", "c", "a", "t", "e", "d", " ", "-", " ", "m", "i", "d", "d",
    "l", "e", " ", "s", "t", "a", "c", "k", " ", "f", "r", "a", "m", "e",
    "s", " ", "o", "m", "i", "t", "t", "e", "d", "]", " ", ".", ".", ".",
    "\n", "\n">>
Marker(dropped) == MarkerHead \o IntStr(dropped) \o MarkerTail

_truncate(text, max_chars) ==
  IF Len(text) <= max_chars THEN text
  ELSE LET half == max_chars \div 2
           dropped == Len(text) - max_chars
       IN SliceTo(text, half) \o Marker(dropped) \o SliceFrom(text, 0 - half)

\* _truncate(text, max_chars) is called and returns
truncate_call ==
  /\ t_pc = "idle"
  /\ \E text \in Texts, max_chars \in Budgets :
       /\ t_text' = text
       /\ t_max_chars' = max_chars
       /\ t_out' = _truncate(text, max_chars)
  /\ t_pc' = "done"
  /\ UNCHANGED <<xvars, avars, rvars, jvars, kvars, mvars, hvars, svars>>

(***************************************************************************)
(* Response parsing: re.search with groups                                 *)
(***************************************************************************)
\* . under re.DOTALL, and [\s\S]: any character at all
AnyChar == [k |-> "any"]
\* r*? : as few repetitions as possible
Lazy(r) == [k |-> "lazy", r |-> r]

\* r consumes exactly one character
OneChar(r) == r.k \in {"any", "set"}

RECURSIVE RunEnd(_, _, _)
\* where the run of characters matching the one-character r from i on stops
RunEnd(r, s, i) ==
  IF r.k = "any" THEN Len(s) + 1
  ELSE IF i <= Len(s) /\ s[i] \in r.s THEN RunEnd(r, s, i + 1)
  ELSE i

Ascending(i, j) == [n \in 1..(j - i + 1) |-> i + n - 1]
Descending(i, j) == [n \in 1..(j - i + 1) |-> j - n + 1]

RECURSIVE OrdEnds(_, _, _)
RECURSIVE OrdEndsCat(_, _, _, _)
RECURSIVE OrdEndsFrom(_, _, _, _)
RECURSIVE OrdEndsAlt(_, _, _, _)

\* The positions j such that r matches s[i..j-1], in the order in which the
\* backtracking matcher of re tries them: a greedy repetition tries more
\* repetitions first, a lazy one fewer.
OrdEnds(r, s, i) ==
  CASE r.k = "any" -> IF i <= Len(s) THEN <<i + 1>> ELSE <<>>
    [] r.k = "set" -> IF i <= Len(s) /\ s[i] \in r.s THEN <<i + 1>> ELSE <<>>
    [] r.k = "cat" -> OrdEndsCat(r.rs, 1, s, i)
    [] r.k = "alt" -> OrdEndsAlt(r.rs, 1, s, i)
    [] r.k = "opt" -> OrdEnds(r.r, s, i) \o <<i>>
    [] r.k = "star" ->
         IF OneChar(r.r) THEN Descending(i, RunEnd(r.r, s, i))
         ELSE OrdEndsFrom(r, s, SelectSeq(OrdEnds(r.r, s, i), LAMBDA p : p > i), <<>>)
              \o <<i>>
    [] r.k = "lazy" ->
         IF OneChar(r.r) THEN Ascending(i, RunEnd(r.r, s, i))
         ELSE <<i>> \o
              OrdEndsFrom(r, s, SelectSeq(OrdEnds(r.r, s, i), LAMBDA p : p > i), <<>>)
    [] r.k = "plus" ->
         IF OneChar(r.r) THEN Descending(i + 1, RunEnd(r.r, s, i))
         ELSE OrdEndsFrom(Star(r.r), s, OrdEnds(r.r, s, i), <<>>)
    [] OTHER -> IF Ends(r, s, i) = {} THEN <<>> ELSE <<i>>

\* the parts rs[n..] of a concatenation, one after the other
OrdEndsCat(rs, n, s, i) ==
  IF n > Len(rs) THEN <<i>>
  ELSE OrdEndsFrom(Cat(SubSeq(rs, n + 1, Len(rs))), s, OrdEnds(rs[n], s, i), <<>>)

\* the alternatives rs[n..], the leftmost first
OrdEndsAlt(rs, n, s, i) ==
  IF n > Len(rs) THEN <<>>
  ELSE OrdEnds(rs[n], s, i) \o OrdEndsAlt(rs, n + 1, s, i)

\* acc, then the ends of r from each position of starts, in order
OrdEndsFrom(r, s, starts, acc) ==
  IF starts = <<>> THEN acc
  ELSE OrdEndsFrom(r, s, Tail(starts), acc \o OrdEnds(r, s, Head(starts)))

RECURSIVE FirstPath(_, _, _, _)
RECURSIVE FirstPathFrom(_, _, _, _)

\* The match of the concatenation rs[n..] at position i that the matcher
\* finds first: the positions where each part ends, or <<>> when none matches.
FirstPath(rs, n, s, i) ==
  IF n > Len(rs) THEN <<i>>
  ELSE FirstPathFrom(rs, n, s, OrdEnds(rs[n], s, i))

FirstPathFrom(rs, n, s, ends) ==
  LET good == {k \in DOMAIN ends : FirstPath(rs, n + 1, s, ends[k]) # <<>>}
  IN IF good = {} THEN <<>>
     ELSE LET k == CHOOSE g \in good : \A h \in good : g <= h
          IN <<ends[k]>> \o
             (IF n = Len(rs) THEN <<>> ELSE FirstPath(rs, n + 1, s, ends[k]))

\* re.search of the concatenation rs in s from position i on: the leftmost
\* start that matches, with the ends of the parts: [found, start, ends]
SearchFrom(rs, s, i) ==
  LET starts == {j \in i..(Len(s) + 1) : FirstPath(rs, 1, s, j) # <<>>}
  IN IF starts = {} THEN [found |-> FALSE, start |-> 0, ends |-> <<>>]
     ELSE LET j == CHOOSE g \in starts : \A h \in starts : g <= h
          IN [found |-> TRUE, start |-> j, ends |-> FirstPath(rs, 1, s, j)]

\* Faulty variant: <json>(.*)</json>, the greedy repetition
JSON_BLOCK_Greedy ==
  <<L(<<"<", "j", "s", "o", "n", ">">>), Star(AnyChar),
    L(<<"<", "/", "j", "s", "o", "n", ">">>)>>

\* <json>(.*?)</json> with re.DOTALL; group 1 is the second part
JSON_BLOCK ==
  <<L(<<"<", "j", "s", "o", "n", ">">>), Lazy(AnyChar),
    L(<<"<", "/", "j", "s", "o", "n", ">">>)>>
\* \{[\s\S]+\}
BRACES == <<L(<<"{">>), Plus(AnyChar), L(<<"}">>)>>

(***************************************************************************)
(* json.loads                                                              *)
(*                                                                         *)
(* A JSON object is a function on strings, an array a sequence, a string a *)
(* string, an integer an integer, true and false the Booleans.  The        *)
(* strings of the documents checked are those of Spelling; the numbers     *)
(* are integers without fraction or exponent.                              *)
(***************************************************************************)
Spelling ==
  "a" :> <<"a">> @@
  "b" :> <<"b">> @@
  "error_type" :> <<"e", "r", "r", "o", "r", "_", "t", "y", "p", "e">> @@
  "error_category" :> <<"e", "r", "r", "o", "r", "_", "c", "a", "t", "e", "g", "o", "r", "y">> @@
  "severity" :> <<"s", "e", "v", "e", "r", "i", "t", "y">> @@
  "confidence" :> <<"c", "o", "n", "f", "i", "d", "e", "n", "c", "e">> @@
  "reasoning_summary" :> <<"r", "e", "a", "s", "o", "n", "i", "n", "g", "_", "s", "u", "m", "m", "a", "r", "y">> @@
  "root_cause" :> <<"r", "o", "o", "t", "_", "c", "a", "u", "s", "e">> @@
  "explanation" :> <<"e", "x", "p", "l", "a", "n", "a", "t", "i", "o", "n">> @@
  "fix_steps" :> <<"f", "i", "x", "_", "s", "t", "e", "p", "s">> @@
  "safe_commands" :> <<"s", "a", "f", "e", "_", "c", "o", "m", "m", "a", "n", "d", "s">> @@
  "prevention_tips" :> <<"p", "r", "e", "v", "e", "n", "t", "i", "o", "n", "_", "t", "i", "p", "s">> @@
  "model_used" :> <<"m", "o", "d", "e", "l", "_", "u", "s", "e", "d">> @@
  "model-used" :> <<"m", "o", "d", "e", "l", "-", "u", "s", "e", "d">> @@
  "fix_worked" :> <<"f", "i", "x", "_", "w", "o", "r", "k", "e", "d">> @@
  "analysis" :> <<"a", "n", "a", "l", "y", "s", "i", "s">> @@
  "next_steps" :> <<"n", "e", "x", "t", "_", "s", "t", "e", "p", "s">> @@
  "still_broken" :> <<"s", "t", "i", "l", "l", "_", "b", "r", "o", "k", "e", "n">> @@
  "python" :> <<"p", "y", "t", "h", "o", "n">> @@
  "java" :> <<"j", "a", "v", "a">> @@
  "low" :> <<"l", "o", "w">> @@
  "high" :> <<"h", "i", "g", "h">> @@
  "critical" :> <<"c", "r", "i", "t", "i", "c", "a", "l">> @@
  "resolved" :> <<"r", "e", "s", "o", "l", "v", "e", "d">> @@
  "ImportError" :> <<"I", "m", "p", "o", "r", "t", "E", "r", "r", "o", "r">> @@
  "x" :> <<"x">> @@
  "" :> <<>>

\* the str whose characters are cs
Str(cs) ==
  IF \E n \in DOMAIN Spelling : Spelling[n] = cs
    THEN CHOOSE n \in DOMAIN Spelling : Spelling[n] = cs
  ELSE "?"

JsonNull == [null |-> TRUE]
JsonWs == {" ", "\t", "\n", "\r"}
JsonFail == [ok |-> FALSE, t |-> "none", v |-> JsonNull, pos |-> 0]
JsonOk(t, v, pos) == [ok |-> TRUE, t |-> t, v |-> v, pos |-> pos]

RECURSIVE SkipWs(_, _)
SkipWs(s, i) == IF i <= Len(s) /\ s[i] \in JsonWs THEN SkipWs(s, i + 1) ELSE i

At(s, i, ch) == i <= Len(s) /\ s[i] = ch
StartsAt(s, i, w) == i + Len(w) - 1 <= Len(s) /\ SubSeq(s, i, i + Len(w) - 1) = w

RECURSIVE ScanString(_, _, _)
\* the characters of a string whose opening quote is before position i
ScanString(s, i, acc) ==
  IF i > Len(s) THEN JsonFail
  ELSE IF s[i] = "\"" THEN JsonOk("string", acc, i + 1)
  ELSE IF s[i] = "\\"
    THEN IF i + 1 > Len(s) THEN JsonFail
         ELSE IF s[i + 1] \in {"\"", "\\", "/"}
           THEN ScanString(s, i + 2, Append(acc, s[i + 1]))
         ELSE IF s[i + 1] = "n" THEN ScanString(s, i + 2, Append(acc, "\n"))
         ELSE IF s[i + 1] = "t" THEN ScanString(s, i + 2, Append(acc, "\t"))
         ELSE IF s[i + 1] = "r" THEN ScanString(s, i + 2, Append(acc, "\r"))
         ELSE IF s[i + 1] = "f" THEN ScanString(s, i + 2, Append(acc, "\f"))
         ELSE JsonFail
  \* a control character inside a string is rejected (strict mode)
  ELSE IF s[i] \in {"\n", "\t", "\r", "\f"} THEN JsonFail
  ELSE ScanString(s, i + 1, Append(acc, s[i]))

DigitValue(ch) ==
  CASE ch = "0" -> 0 [] ch = "1" -> 1 [] ch = "2" -> 2 [] ch = "3" -> 3
    [] ch = "4" -> 4 [] ch = "5" -> 5 [] ch = "6" -> 6 [] ch = "7" -> 7
    [] ch = "8" -> 8 [] OTHER -> 9

RECURSIVE ScanDigits(_, _, _)
ScanDigits(s, i, acc) ==
  IF i <= Len(s) /\ s[i] \in DigitCh
    THEN ScanDigits(s, i + 1, 10 * acc + DigitValue(s[i]))
  ELSE JsonOk("number", acc, i)

\* -?(0|[1-9]\d*)
ScanNumber(s, i) ==
  LET neg == At(s, i, "-")
      j == IF neg THEN i + 1 ELSE i
      r == IF At(s, j, "0") THEN JsonOk("number", 0, j + 1)
           ELSE IF j <= Len(s) /\ s[j] \in DigitCh THEN ScanDigits(s, j, 0)
           ELSE JsonFail
  IN IF r.ok /\ neg THEN JsonOk("number", 0 - r.v, r.pos) ELSE r

\* the dict of the pairs <<key, value>>: the last value of a key wins
MakeObject(pairs) ==
  [key \in {pairs[n][1] : n \in DOMAIN pairs} |->
     pairs[CHOOSE n \in DOMAIN pairs :
             /\ pairs[n][1] = key
             /\ \A m \in DOMAIN pairs : m > n => pairs[m][1] # key][2]]

RECURSIVE ParseValue(_, _)
RECURSIVE ParseMembers(_, _, _)
RECURSIVE ParseElements(_, _, _)

\* one JSON value starting exactly at position i: [ok, t, v, pos]
ParseValue(s, i) ==
  IF i > Len(s) THEN JsonFail
  ELSE IF s[i] = "\""
    THEN LET r == ScanString(s, i + 1, <<>>)
         IN IF r.ok THEN JsonOk("string", Str(r.v), r.pos) ELSE JsonFail
  ELSE IF s[i] = "{"
    THEN LET j == SkipWs(s, i + 1)
         IN IF At(s, j, "}") THEN JsonOk("object", <<>>, j + 1)
            ELSE ParseMembers(s, j, <<>>)
  ELSE IF s[i] = "["
    THEN LET j == SkipWs(s, i + 1)
         IN IF At(s, j, "]") THEN JsonOk("array", <<>>, j + 1)
            ELSE ParseElements(s, j, <<>>)
  ELSE IF StartsAt(s, i, <<"t", "r", "u", "e">>) THEN JsonOk("bool", TRUE, i + 4)
  ELSE IF StartsAt(s, i, <<"f", "a", "l", "s", "e">>) THEN JsonOk("bool", FALSE, i + 5)
  ELSE IF StartsAt(s, i, <<"n", "u", "l", "l">>) THEN JsonOk("null", JsonNull, i + 4)
  ELSE ScanNumber(s, i)

\* "key" : value, then "," and the next member, or "}"
ParseMembers(s, i, pairs) ==
  IF ~At(s, i, "\"") THEN JsonFail
  ELSE LET key == ScanString(s, i + 1, <<>>)
       IN IF ~key.ok THEN JsonFail
          ELSE LET j == SkipWs(s, key.pos)
               IN IF ~At(s, j, ":") THEN JsonFail
                  ELSE LET val == ParseValue(s, SkipWs(s, j + 1))
                       IN IF ~val.ok THEN JsonFail
                          ELSE LET k == SkipWs(s, val.pos)
                                   ps == Append(pairs, <<Str(key.v), val.v>>)
                               IN IF At(s, k, "}")
                                    THEN JsonOk("object", MakeObject(ps), k + 1)
                                  ELSE IF At(s, k, ",")
                                    THEN ParseMembers(s, SkipWs(s, k + 1), ps)
                                  ELSE JsonFail

\* value, then "," and the next element, or "]"
ParseElements(s, i, elems) ==
  LET val == ParseValue(s, i)
  IN IF ~val.ok THEN JsonFail
     ELSE LET k == SkipWs(s, val.pos)
              es == Append(elems, val.v)
          IN IF At(s, k, "]") THEN JsonOk("array", es, k + 1)
             ELSE IF At(s, k, ",") THEN ParseElements(s, SkipWs(s, k + 1), es)
             ELSE JsonFail

\* json.loads(s): the value, or JSONDecodeError (also for text after the value)
json_loads(s) ==
  LET r == ParseValue(s, SkipWs(s, 1))
  IN IF r.ok /\ SkipWs(s, r.pos) = Len(s) + 1
       THEN [exc |-> "none", t |-> r.t, v |-> r.v]
     ELSE [exc |-> "JSONDecodeError", t |-> "none", v |-> JsonNull]

\* match.group(k) of a match found by SearchFrom
Group(s, m, k) ==
  SubSeq(s, IF k = 1 THEN m.start ELSE m.ends[k - 1], m.ends[k] - 1)

_extract_json(text) ==
  LET block == SearchFrom(JSON_BLOCK, text, 1)
      braces == SearchFrom(BRACES, text, 1)
  IN IF block.found THEN json_loads(Strip(Group(text, block, 2)))
     ELSE IF braces.found
       THEN json_loads(SubSeq(text, braces.start, braces.ends[3] - 1))
     ELSE [exc |-> "ValueError", t |-> "none", v |-> JsonNull]

\* The reply texts: concatenations of at most MaxReplyFrags fragments
MaxReplyFrags == 4
ReplyFrags ==
  { <<"<", "j", "s", "o", "n", ">">>, <<"<", "/", "j", "s", "o", "n", ">">>,
    \* <json>{"a":1}</json>
    <<"<", "j", "s", "o", "n", ">", "{", "\"", "a", "\"", ":", "1", "}",
      "<", "/", "j", "s", "o", "n", ">">>,
    \* {"b":2}
    <<"{", "\"", "b", "\"", ":", "2", "}">>,
    <<"{">>, <<"}">>, <<" ", "x", " ">> }
RECURSIVE ReplyConcats(_)
ReplyConcats(n) ==
  IF n = 0 THEN {<<>>}
  ELSE LET P == ReplyConcats(n - 1) IN P \cup {p \o f : p \in P, f \in ReplyFrags}
ReplyTexts == ReplyConcats(MaxReplyFrags)

\* _extract_json(text) is called and returns or raises
extract_json_call ==
  /\ j_pc = "idle"
  /\ \E text \in ReplyTexts :
       /\ j_text' = text
       /\ j_out' = _extract_json(text)
  /\ j_pc' = "done"
  /\ UNCHANGED <<xvars, avars, rvars, tvars, kvars, mvars, hvars, svars>>

(***************************************************************************)
(* Response parsing and the records returned                               *)
(***************************************************************************)
\* what the try block holds for structured before _extract_json has run
NotExtracted == [exc |-> "none", t |-> "none", v |-> NoValue]

\* structured = self._extract_json(data["content"][0]["text"]), for a call
\* that got as far as that line
Structured(ret) ==
  IF ret.exc = "none" /\ ret.body.kind \in {"text", "usage_null"}
    THEN _extract_json(ret.body.text)
  ELSE NotExtracted

\* data["content"][0]["text"], then _extract_json, then (analyze only) the
\* token usage lines: the exception raised inside the try block, or "none";
\* structured is what _extract_json did with the text.
DecodeExc(o, body, structured) ==
  CASE body.kind = "json_list" -> "TypeError"
    [] body.kind = "no_content" -> "KeyError"
    [] body.kind = "content_empty" -> "IndexError"
    [] body.kind = "no_text" -> "KeyError"
    [] OTHER ->
         IF structured.exc # "none" THEN structured.exc
         \* usage.get(...) of None
         ELSE IF body.kind = "usage_null" /\ o = "analyze" THEN "AttributeError"
         ELSE "none"

_analysis_fallback(reason) ==
  [f \in AnalysisFields |->
     CASE f = "error_type" -> "Analysis Unavailable"
       [] f = "error_category" -> "unknown"
       [] f = "severity" -> "medium"
       [] f = "confidence" -> "Unavailable"
       [] f = "reasoning_summary" -> reason
       [] f = "root_cause" -> "Analysis could not be completed."
       [] f = "explanation" -> reason
       [] f = "fix_steps" -> <<"Retry the analysis, or review the error log manually.">>
       [] f = "safe_commands" -> <<>>
       [] f = "prevention_tips" -> <<>>
       [] f = "model_used" -> MODEL]

\* Faulty variant: the fallback reports the fix as working
_feedback_fallback_Optimistic(reason) ==
  [fix_worked |-> TRUE, analysis |-> reason,
   next_steps |-> <<"Retry evaluation, or review the output manually.">>,
   still_broken |-> FALSE]

_feedback_fallback(reason) ==
  [fix_worked |-> FALSE, analysis |-> reason,
   next_steps |-> <<"Retry evaluation, or review the output manually.">>,
   still_broken |-> TRUE]

AnalysisDefaults ==
  [f \in AnalysisFields |->
     CASE f = "error_type" -> "Unknown Error"
       [] f = "error_category" -> "unknown"
       [] f = "severity" -> "medium"
       [] f = "confidence" -> "Insufficient context"
       [] f = "reasoning_summary" -> "No summary provided."
       [] f = "root_cause" -> "Could not determine root cause."
       [] f = "explanation" -> ""
       [] f = "fix_steps" -> <<>>
       [] f = "safe_commands" -> <<>>
       [] f = "prevention_tips" -> <<>>
       [] f = "model_used" -> MODEL]

FeedbackDefaults ==
  [fix_worked |-> FALSE, analysis |-> "No analysis returned.",
   next_steps |-> <<>>, still_broken |-> TRUE]

\* Faulty variant: the decoded record alone, no defaults under it
Merge_StructuredOnly(defaults, structured) == structured

\* {**defaults, **structured}
Merge(defaults, structured) ==
  [f \in DOMAIN defaults \cup DOMAIN structured |->
     IF f \in DOMAIN structured THEN structured[f] ELSE defaults[f]]

RateLimitText(o) ==
  IF o = "analyze"
    THEN "Claude API rate limit reached. Please wait a moment and try again."
  ELSE "Rate limit reached during fix evaluation. Please retry shortly."
UnavailableText(o, msg) ==
  IF o = "analyze" THEN <<"Claude API temporarily unavailable: ", msg>>
  ELSE <<"API unavailable: ", msg>>
ParseFailedText(o) ==
  IF o = "analyze"
    THEN "Response parsing failed - the model returned an unexpected format."
  ELSE "Response parsing failed."
Fallback(o, reason) ==
  IF o = "analyze" THEN _analysis_fallback(reason) ELSE _feedback_fallback(reason)

ExhaustedText == "Claude API unavailable after 3 attempts. Please try again shortly."

\* Faulty variant: no except clause for ValueError, KeyError, JSONDecodeError
AgentExcept_ParseUncaught(o, e, msg, rid) ==
  IF IsInstance(e, "RateLimitError")
    THEN [kind |-> "fallback_rate_limit", returns |-> TRUE, logs |-> <<>>,
          result |-> Fallback(o, RateLimitText(o))]
  ELSE IF IsInstance(e, "APIError") \/ IsInstance(e, "TimeoutException")
    THEN [kind |-> "fallback_unavailable", returns |-> TRUE, logs |-> <<>>,
          result |-> Fallback(o, UnavailableText(o, msg))]
  ELSE [kind |-> "raised", returns |-> FALSE, logs |-> <<>>, result |-> NoValue]

\* The except clauses of analyze and evaluate_fix, in the order written,
\* applied to the exception e (with message msg) raised in the try block;
\* rid is request_id[:8].
\* [kind, returns, result, logs]
AgentExcept(o, e, msg, rid) ==
  IF IsInstance(e, "RateLimitError")
    THEN [kind |-> "fallback_rate_limit", returns |-> TRUE, logs |-> <<>>,
          result |-> Fallback(o, RateLimitText(o))]
  ELSE IF IsInstance(e, "APIError") \/ IsInstance(e, "TimeoutException")
    THEN [kind |-> "fallback_unavailable", returns |-> TRUE, logs |-> <<>>,
          result |-> Fallback(o, UnavailableText(o, msg))]
  ELSE IF IsInstance(e, "ValueError") \/ IsInstance(e, "KeyError")
          \/ IsInstance(e, "JSONDecodeError")
    THEN [kind |-> "fallback_parse", returns |-> TRUE,
          logs |-> <<<<"error", "parse error", rid>>>>,
          result |-> Fallback(o, ParseFailedText(o))]
  ELSE [kind |-> "raised", returns |-> FALSE, logs |-> <<>>, result |-> NoValue]

\* analyze / evaluate_fix once _post_with_retry has returned data or raised:
\* ret = [exc, msg, body], structured = Structured(ret).
\* [kind, returns, result, logs, exc]
AgentFinish(o, ret, rid, structured) ==
  LET e == IF ret.exc # "none" THEN ret.exc
           ELSE DecodeExc(o, ret.body, structured)
      tokens == IF o = "analyze" THEN <<<<"info", "tokens", rid>>>> ELSE <<>>
  IN IF e # "none"
       THEN LET h == AgentExcept(o, e, ret.msg, rid)
            IN [kind |-> h.kind, returns |-> h.returns, result |-> h.result,
                logs |-> h.logs, exc |-> IF h.returns THEN "none" ELSE e]
     ELSE IF structured.t # "object"
       \* {..., **structured} with a value that is no mapping
       THEN [kind |-> "raised", returns |-> FALSE, result |-> NoValue,
             logs |-> tokens, exc |-> "TypeError"]
     ELSE [kind |-> "merged", returns |-> TRUE,
           result |-> Merge(IF o = "analyze" THEN AnalysisDefaults
                            ELSE FeedbackDefaults, structured.v),
           logs |-> tokens, exc |-> "none"]

(***************************************************************************)
(* _post_with_retry, one step per await                                    *)
(***************************************************************************)
\* _post_with_retry ends (returns data or raises); the caller's handlers run
\* in the same step.
EndCall(ret, newlog) ==
  \E structured \in {Structured(ret)} :
  \E f \in {AgentFinish(op, ret, SliceTo(request_id, 8), structured)} :
     /\ a_pc' = "done"
     /\ a_return' = ret
     /\ a_result' = f.result
     /\ a_raised' = f.exc
     /\ a_kind' = f.kind
     /\ log' = newlog \o f.logs

Raised(e, msg) == [exc |-> e, msg |-> msg, body |-> NoBody]
Returned(b) == [exc |-> "none", msg |-> "", body |-> b]

\* analyze(...) or evaluate_fix(...) is called and enters _post_with_retry
agent_call ==
  /\ a_pc = "idle"
  /\ \E o \in {"analyze", "evaluate_fix"} : op' = o
  /\ \E rid \in RequestIds : request_id' = rid
  /\ a_pc' = "loop"
  /\ UNCHANGED <<attempt, last_exc, posts, in_flight, attempts, waits, pending,
                 log, a_return, a_result, a_raised, a_kind>>
  /\ UNCHANGED <<xvars, rvars, tvars, jvars, kvars, mvars, hvars, svars>>

\* Faulty variant: the next request leaves while the wait is still running
post_send_DuringSleep ==
  /\ a_pc \in {"loop", "sleep"}
  /\ LoopContinues(attempt)
  /\ posts' = posts + 1
  /\ in_flight' = in_flight + 1
  /\ a_pc' = "awaiting"
  /\ UNCHANGED <<op, request_id, attempt, last_exc, attempts, waits, pending,
                 log, a_return, a_result, a_raised, a_kind>>
  /\ UNCHANGED <<xvars, rvars, tvars, jvars, kvars, mvars, hvars, svars>>

\* await client.post(...): the request leaves
post_send ==
  /\ a_pc = "loop"
  /\ LoopContinues(attempt)
  /\ posts' = posts + 1
  /\ in_flight' = in_flight + 1
  /\ a_pc' = "awaiting"
  /\ UNCHANGED <<op, request_id, attempt, last_exc, attempts, waits, pending,
                 log, a_return, a_result, a_raised, a_kind>>
  /\ UNCHANGED <<xvars, rvars, tvars, jvars, kvars, mvars, hvars, svars>>

StartSleep(w, exc, event) ==
  /\ waits' = Append(waits, w)
  /\ pending' = exc
  /\ log' = Append(log, <<"warning", event, SliceTo(request_id, 8)>>)
  /\ a_pc' = "sleep"
  /\ UNCHANGED <<a_return, a_result, a_raised, a_kind>>

\* client.post(...) is answered, and the loop body runs up to its next await
post_response ==
  /\ a_pc = "awaiting"
  /\ in_flight' = in_flight - 1
  /\ \E r \in PostOutcomes(op) :
       /\ attempts' = Append(attempts, r)
       /\ IF r.exc # "none"
            THEN IF IsInstance(r.exc, "TimeoutException")
                   THEN \E j \in Jitters :
                          StartSleep(BackoffPow(attempt + 1) + j, r.exc, "timeout")
                 ELSE /\ EndCall(Raised(r.exc, "transport"), log)
                      /\ UNCHANGED <<waits, pending>>
          ELSE IF StatusClass(r.status) = "rate_limited"
            THEN IF r.retry_after.present /\ ~r.retry_after.numeric
                   \* float(...) of text that is no number
                   THEN /\ EndCall(Raised("ValueError", "could not convert string to float"), log)
                        /\ UNCHANGED <<waits, pending>>
                 ELSE \E j \in Jitters :
                        StartSleep((IF r.retry_after.present THEN r.retry_after.ms
                                    ELSE BASE_BACKOFF) + j,
                                   "RateLimitError", "rate limited")
          ELSE IF StatusClass(r.status) = "server_error"
            THEN \E j \in Jitters :
                   StartSleep(BackoffPow(attempt + 1) + j, "APIError", "server error")
          ELSE IF StatusClass(r.status) = "error"
            \* response.raise_for_status()
            THEN /\ EndCall(Raised("HTTPStatusError", "status"), log)
                 /\ UNCHANGED <<waits, pending>>
          ELSE IF r.body.kind = "not_json"
            \* response.json()
            THEN /\ EndCall(Raised("JSONDecodeError", "json"), log)
                 /\ UNCHANGED <<waits, pending>>
          ELSE /\ EndCall(Returned(r.body), log)
               /\ UNCHANGED <<waits, pending>>
  /\ UNCHANGED <<op, request_id, attempt, last_exc, posts>>
  /\ UNCHANGED <<xvars, rvars, tvars, jvars, kvars, mvars, hvars, svars>>

\* asyncio.sleep(wait) returns; last_exc is assigned and the loop goes on,
\* or ends with the raise that follows it
sleep_done ==
  /\ a_pc = "sleep"
  /\ last_exc' = pending
  /\ attempt' = attempt + 1
  /\ IF LoopContinues(attempt + 1)
       THEN /\ a_pc' = "loop"
            /\ UNCHANGED <<log, a_return, a_result, a_raised, a_kind>>
     ELSE IF IsInstance(pending, "RateLimitError")
       THEN EndCall(Raised("RateLimitError", "Claude API rate limit reached. Please wait a moment and try again."), log)
     ELSE EndCall(Raised("APIError", ExhaustedText), log)
  /\ UNCHANGED <<op, request_id, posts, in_flight, attempts, waits, pending>>
  /\ UNCHANGED <<xvars, rvars, tvars, jvars, kvars, mvars, hvars, svars>>

(***************************************************************************)
(* Specifications                                                          *)
(***************************************************************************)
(***************************************************************************)
(* MetricsStore (backend/metrics.py).  Every method is                     *)
(* "async with self._lock:" around a body without awaits.  A call is four  *)
(* steps: it is made, it takes the lock, the first statements of its body  *)
(* run (the counters), the remaining statements run (the session index, or *)
(* the dict snapshot builds) and the lock is released.  Clock readings     *)
(* (timestamp, uptime) are left out.                                       *)
(***************************************************************************)
RESPONSE_TIME_WINDOW == 200
RECENT_SESSIONS_CAP == 20

MaxCallers == 3
Callers == 1..MaxCallers

\* MetricsStore.__init__
MetricsStore ==
  [total_analyses |-> 0, total_executions |-> 0, total_commands_run |-> 0,
   total_feedback_evals |-> 0, fixes_confirmed |-> 0,
   by_category |-> <<>>, by_severity |-> <<>>,
   api_errors |-> 0, rate_limit_hits |-> 0, timeout_hits |-> 0,
   parse_errors |-> 0,
   _response_times |-> <<>>, _sessions |-> <<>>, _recent |-> <<>>]

\* SessionRecord(request_id=request_id, timestamp=...)
SessionRecord(rid) ==
  [request_id |-> rid, category |-> "unknown", severity |-> "medium",
   response_ms |-> 0, executed |-> FALSE, commands_run |-> 0,
   feedback_run |-> FALSE, fix_worked |-> FALSE, had_error |-> FALSE]

\* d[k] += 1 on a defaultdict(int)
Incr(d, k) ==
  IF k \in DOMAIN d THEN [d EXCEPT ![k] = @ + 1] ELSE d @@ (k :> 1)

\* Faulty variant: a deque without maxlen
DequeAppend_Unbounded(q, x, cap) == Append(q, x)

\* deque(maxlen=cap).append(x)
DequeAppend(q, x, cap) ==
  IF Len(q) >= cap THEN Append(Tail(q), x) ELSE Append(q, x)

InSeq(x, q) == \E i \in 1..Len(q) : q[i] = x

\* The request ids of the calls: one longer than the 8 characters shown by
\* snapshot, and a short one
SessionIds ==
  { <<"7", "f", "3", "a", "9", "c", "0", "e", "-", "1", "b", "2">>,
    <<"r", "2">> }

\* response_time_s, in thousandths of a second; the times drawn are exact
\* in binary floating point, so int(response_time_s * 1000) gives them back
ResponseTimes == {250}
ResponseMs(t) == t

\* The calls a caller can make
MetricsCalls ==
  {[method |-> "record_analysis", request_id |-> r, category |-> "python",
    severity |-> "high", response_time_s |-> t, api_error |-> FALSE,
    rate_limited |-> FALSE, timed_out |-> FALSE, parse_error |-> FALSE] :
      r \in SessionIds, t \in ResponseTimes}
  \cup
  {[method |-> "record_analysis", request_id |-> r, category |-> "unknown",
    severity |-> "medium", response_time_s |-> t, api_error |-> TRUE,
    rate_limited |-> FALSE, timed_out |-> FALSE, parse_error |-> TRUE] :
      r \in SessionIds, t \in ResponseTimes}
  \cup
  {[method |-> "record_execution", request_id |-> r, commands_run |-> 2] :
      r \in SessionIds}
  \cup
  {[method |-> "record_feedback", request_id |-> r, fix_worked |-> w] :
      r \in {<<"r", "2">>}, w \in BOOLEAN}
  \cup {[method |-> "snapshot"]}

\* record_analysis, from total_analyses += 1 to parse_errors += 1
record_analysis_counters(st, c) ==
  [st EXCEPT
     !.total_analyses = @ + 1,
     !.by_category = Incr(@, c.category),
     !.by_severity = Incr(@, c.severity),
     !._response_times = DequeAppend(@, c.response_time_s, RESPONSE_TIME_WINDOW),
     !.api_errors = IF c.api_error THEN @ + 1 ELSE @,
     !.rate_limit_hits = IF c.rate_limited THEN @ + 1 ELSE @,
     !.timeout_hits = IF c.timed_out THEN @ + 1 ELSE @,
     !.parse_errors = IF c.parse_error THEN @ + 1 ELSE @]

\* record_analysis, from self._sessions.setdefault(...) to the end
record_analysis_session(st, c) ==
  LET rid == c.request_id
      rec == IF rid \in DOMAIN st._sessions THEN st._sessions[rid]
             ELSE SessionRecord(rid)
      upd == [rec EXCEPT !.category = c.category, !.severity = c.severity,
                         !.response_ms = ResponseMs(c.response_time_s),
                         !.had_error = c.api_error]
  IN [st EXCEPT
        !._sessions = IF rid \in DOMAIN @ THEN [@ EXCEPT ![rid] = upd]
                      ELSE @ @@ (rid :> upd),
        !._recent = IF InSeq(rid, @) THEN @
                    ELSE DequeAppend(@, rid, RECENT_SESSIONS_CAP)]

\* record_execution: the two counters
record_execution_counters(st, c) ==
  [st EXCEPT !.total_executions = @ + 1,
             !.total_commands_run = @ + c.commands_run]

\* record_execution: rec = self._sessions.get(request_id); if rec: ...
record_execution_session(st, c) ==
  IF c.request_id \in DOMAIN st._sessions
    THEN [st EXCEPT !._sessions[c.request_id].executed = TRUE,
                    !._sessions[c.request_id].commands_run = c.commands_run]
  ELSE st

\* record_feedback: the two counters
record_feedback_counters(st, c) ==
  [st EXCEPT !.total_feedback_evals = @ + 1,
             !.fixes_confirmed = IF c.fix_worked THEN @ + 1 ELSE @]

\* record_feedback: rec = self._sessions.get(request_id); if rec: ...
record_feedback_session(st, c) ==
  IF c.request_id \in DOMAIN st._sessions
    THEN [st EXCEPT !._sessions[c.request_id].feedback_run = TRUE,
                    !._sessions[c.request_id].fix_worked = c.fix_worked]
  ELSE st

\* snapshot: times = list(self._response_times) ... total = self.total_analyses
snapshot_locals(st) ==
  [times |-> st._response_times, total |-> st.total_analyses]

Reverse(q) == [i \in 1..Len(q) |-> q[Len(q) + 1 - i]]

\* snapshot: the recent list and the dict returned (rates and percentiles
\* left out)
snapshot_dict(st, loc) ==
  LET shown == SelectSeq(Reverse(st._recent),
                         LAMBDA rid : rid \in DOMAIN st._sessions)
      recent == [i \in 1..Len(shown) |->
                   LET rec == st._sessions[shown[i]]
                   IN [request_id |-> SliceTo(shown[i], 8),
                       category |-> rec.category,
                       severity |-> rec.severity,
                       response_ms |-> rec.response_ms,
                       executed |-> rec.executed,
                       feedback_run |-> rec.feedback_run,
                       fix_worked |-> rec.fix_worked,
                       had_error |-> rec.had_error]]
  IN [totals |-> [analyses |-> loc.total,
                  executions |-> st.total_executions,
                  commands_run |-> st.total_commands_run,
                  feedback_evals |-> st.total_feedback_evals],
      by_category |-> st.by_category,
      by_severity |-> st.by_severity,
      samples |-> Len(loc.times),
      fixes_confirmed |-> st.fixes_confirmed,
      api_health |-> [api_errors |-> st.api_errors,
                      rate_limit_hits |-> st.rate_limit_hits,
                      timeout_hits |-> st.timeout_hits,
                      parse_errors |-> st.parse_errors],
      recent_sessions |-> recent]

\* the first statements of the body of call c
BodyFirst(st, c) ==
  CASE c.method = "record_analysis" -> record_analysis_counters(st, c)
    [] c.method = "record_execution" -> record_execution_counters(st, c)
    [] c.method = "record_feedback" -> record_feedback_counters(st, c)
    [] c.method = "snapshot" -> st

\* the remaining statements of the body of call c
BodyRest(st, c) ==
  CASE c.method = "record_analysis" -> record_analysis_session(st, c)
    [] c.method = "record_execution" -> record_execution_session(st, c)
    [] c.method = "record_feedback" -> record_feedback_session(st, c)
    [] c.method = "snapshot" -> st

\* the store after call c has run alone, from its first statement to its last
ApplyCall(st, c) == BodyRest(BodyFirst(st, c), c)

\* Faulty variant: the lock is handed out while it is held
CanAcquire_Always(lock) == TRUE

\* asyncio.Lock.acquire returns once the lock is free
CanAcquire(lock) == lock = 0

\* a coroutine calls a method of the store and reaches "async with"
metrics_call(p) ==
  /\ m_pc[p] = "idle"
  /\ \E c \in MetricsCalls : m_args' = [m_args EXCEPT ![p] = c]
  /\ m_pc' = [m_pc EXCEPT ![p] = "waiting"]
  /\ UNCHANGED <<store, m_lock, m_local, m_ret, m_order>>
  /\ UNCHANGED <<xvars, avars, rvars, tvars, jvars, kvars, hvars, svars>>

\* async with self._lock: the lock is taken
lock_acquire(p) ==
  /\ m_pc[p] = "waiting"
  /\ CanAcquire(m_lock)
  /\ m_lock' = p
  /\ m_pc' = [m_pc EXCEPT ![p] = "locked"]
  /\ UNCHANGED <<store, m_args, m_local, m_ret, m_order>>
  /\ UNCHANGED <<xvars, avars, rvars, tvars, jvars, kvars, hvars, svars>>

\* the first statements of the body
body_first(p) ==
  /\ m_pc[p] = "locked"
  /\ store' = BodyFirst(store, m_args[p])
  /\ m_local' = [m_local EXCEPT ![p] =
                   IF m_args[p].method = "snapshot" THEN snapshot_locals(store)
                   ELSE @]
  /\ m_pc' = [m_pc EXCEPT ![p] = "half"]
  /\ UNCHANGED <<m_lock, m_args, m_ret, m_order>>
  /\ UNCHANGED <<xvars, avars, rvars, tvars, jvars, kvars, hvars, svars>>

\* the remaining statements of the body; the lock is released and the
\* method returns
body_rest(p) ==
  /\ m_pc[p] = "half"
  /\ store' = BodyRest(store, m_args[p])
  /\ m_ret' = [m_ret EXCEPT ![p] =
                 IF m_args[p].method = "snapshot"
                   THEN snapshot_dict(store, m_local[p])
                 ELSE @]
  /\ m_lock' = 0
  /\ m_order' = Append(m_order, p)
  /\ m_pc' = [m_pc EXCEPT ![p] = "done"]
  /\ UNCHANGED <<m_args, m_local>>
  /\ UNCHANGED <<xvars, avars, rvars, tvars, jvars, kvars, hvars, svars>>

(***************************************************************************)
(* Long runs of record calls.  A call runs alone from its first statement  *)
(* to its last.  Request ids are r1, r2, ...: an analysis is recorded for  *)
(* the next id not yet seen or again for r1; executions and feedback name  *)
(* r1 or r0, an id no analysis is recorded for.                            *)
(***************************************************************************)
MaxAnalyses == 202
MaxIds == 22
MaxOther == 1

IdOf(n) == <<"r">> \o IntStr(n)

\* the request ids a record_analysis call can carry in this state
AnalysisIds(st) ==
  {IdOf(1)} \cup
  (IF Cardinality(DOMAIN st._sessions) < MaxIds
     THEN {IdOf(Cardinality(DOMAIN st._sessions) + 1)} ELSE {})

\* the record_analysis calls: a new id with a successful analysis, or r1
\* again with a degraded one
AnalysisCalls(st) ==
  {[method |-> "record_analysis", request_id |-> r,
    category |-> IF r \in DOMAIN st._sessions THEN "unknown" ELSE "python",
    severity |-> IF r \in DOMAIN st._sessions THEN "medium" ELSE "high",
    response_time_s |-> t,
    api_error |-> r \in DOMAIN st._sessions,
    rate_limited |-> FALSE, timed_out |-> FALSE,
    parse_error |-> r \in DOMAIN st._sessions] :
      r \in AnalysisIds(st), t \in ResponseTimes}

OtherIds == {IdOf(0), IdOf(1)}

\* one call runs on the store
RecordCall(c) ==
  /\ store' = ApplyCall(store, c)
  /\ s_last' = c
  /\ s_prev' = store._sessions
  /\ UNCHANGED <<m_lock, m_pc, m_args, m_local, m_ret, m_order>>
  /\ UNCHANGED <<xvars, avars, rvars, tvars, jvars, kvars, hvars>>

\* await store.record_analysis(...)
record_analysis_call ==
  /\ store.total_analyses < MaxAnalyses
  /\ \E c \in AnalysisCalls(store) : RecordCall(c)

\* await store.record_execution(...)
record_execution_call ==
  /\ store.total_executions < MaxOther
  /\ \E r \in OtherIds :
       RecordCall([method |-> "record_execution", request_id |-> r,
                   commands_run |-> 2])

\* await store.record_feedback(...)
record_feedback_call ==
  /\ store.total_feedback_evals < MaxOther
  /\ \E r \in OtherIds, w \in BOOLEAN :
       RecordCall([method |-> "record_feedback", request_id |-> r,
                   fix_worked |-> w])

(***************************************************************************)
(* The route handlers of backend/main.py                                   *)
(***************************************************************************)
\* The names bound at module level in main.py: its imports, classes,
\* functions and assignments
MainGlobals ==
  {"logging", "os", "time", "asynccontextmanager", "Path", "FastAPI",
   "Request", "HTTPException", "HTMLResponse", "JSONResponse", "StaticFiles",
   "Jinja2Templates", "BaseModel", "uvicorn", "ClaudeDebugAgent",
   "SafeCommandExecutor", "store", "RequestIDMiddleware", "configure_logging",
   "get_request_id", "logger", "lifespan", "app", "templates",
   "AnalyzeRequest", "ExecuteRequest", "FeedbackLoopRequest",
   "AnalysisResponse", "ExecutionResult", "FeedbackResponse", "index",
   "analyze_log", "execute_commands", "feedback_loop", "get_metrics",
   "health", "not_found", "server_error"}

\* loading a global name succeeds when the module binds it (no builtin is
\* called metrics); otherwise NameError is raised
NameResolves(name) == name \in MainGlobals

MaxPayload == 2
\* payload.log
PayloadLogs == {<<>>, <<" ">>, <<"x">>}
\* payload.commands
PayloadCommands == ListsUpTo(MaxPayload)
\* elapsed_ms
ElapsedMs == {250}

\* What await agent.analyze(...) gives the handler: a record, or an
\* exception analyze lets through
AnalyzeOutcomes ==
  {[exc |-> "none",
    record |-> Merge(AnalysisDefaults,
                     [severity |-> "low", error_type |-> "ImportError"])],
   [exc |-> "none", record |-> _analysis_fallback(ParseFailedText("analyze"))],
   [exc |-> "none", record |-> _analysis_fallback(RateLimitText("analyze"))],
   [exc |-> "HTTPStatusError", record |-> NoValue]}

\* word in result.get("reasoning_summary", "").lower(), for the summaries of
\* AnalyzeOutcomes
Mentions(word, summary) ==
  CASE summary = ParseFailedText("analyze") -> word = "parsing"
    [] summary = RateLimitText("analyze") -> word = "rate limit"
    [] OTHER -> FALSE

\* What await executor.run(cmd) gives the handler
RunReturns(c, m) ==
  LET c1 == Strip(c)
  IN IF _is_forbidden(c1) THEN {BlockedForbidden(c1)}
     ELSE IF SafeModeBlocks(m, _is_safe(c1)) THEN {BlockedWhitelist(c1)}
     ELSE {Result(c1, "", "", code, _is_safe(c1)) : code \in {0, -5, -6}}

\* the arguments analyze_log passes to record_analysis
AnalysisCall(rid, result, ms) ==
  [method |-> "record_analysis", request_id |-> rid,
   category |-> result.error_category, severity |-> result.severity,
   response_time_s |-> ms,
   api_error |-> result.error_type = "Analysis Unavailable",
   rate_limited |-> Mentions("rate limit", result.reasoning_summary),
   timed_out |-> Mentions("unavailable", result.reasoning_summary),
   parse_error |-> Mentions("parsing", result.reasoning_summary)]

\* AnalysisResponse(request_id=req_id, response_time_ms=elapsed_ms, **result)
AnalysisResponse(rid, ms, result) ==
  [f \in AnalysisFields \cup {"request_id", "response_time_ms"} |->
     CASE f = "request_id" -> rid
       [] f = "response_time_ms" -> ms
       [] OTHER -> result[f]]

\* the handler ends with a response, or with an exception (HTTP 500)
Respond(status, body, exc) ==
  /\ h_pc' = "done"
  /\ h_status' = status
  /\ h_response' = body
  /\ h_raised' = exc

\* "await metrics.<method>(...)" and the return that follows it: the name
\* metrics is looked up first; were it bound to the store, the call would run
\* and the handler would return body
RecordAndReturn(call, body) ==
  IF NameResolves("metrics")
    THEN /\ store' = ApplyCall(store, call)
         /\ Respond(200, body, "none")
  ELSE /\ Respond(500, NoValue, "NameError")
       /\ UNCHANGED store

\* POST /analyze arrives; analyze_log runs up to await agent.analyze(...)
analyze_log_call ==
  /\ h_pc = "idle"
  /\ h_route' = "/analyze"
  /\ \E rid \in SessionIds, text \in PayloadLogs, key \in BOOLEAN :
       /\ h_req_id' = rid
       /\ h_payload' = [log |-> text, api_key |-> key]
       /\ IF Strip(text) = <<>>
            THEN Respond(400, "No error log provided.", "HTTPException")
          ELSE IF ~key
            THEN Respond(503, "ANTHROPIC_API_KEY is not configured. Claude AI is unavailable.", "HTTPException")
          ELSE /\ h_pc' = "agent"
               /\ UNCHANGED <<h_status, h_response, h_raised>>
  /\ UNCHANGED <<h_result, h_results>>
  /\ UNCHANGED <<xvars, avars, rvars, tvars, jvars, kvars, mvars, svars>>

\* agent.analyze returns or raises; analyze_log runs to its end
analyze_log_resume ==
  /\ h_pc = "agent"
  /\ \E o \in AnalyzeOutcomes, ms \in ElapsedMs :
       IF o.exc # "none"
         THEN /\ Respond(500, NoValue, o.exc)
              /\ UNCHANGED <<h_result, store>>
       ELSE /\ h_result' = o.record
            /\ RecordAndReturn(AnalysisCall(h_req_id, o.record, ms),
                               AnalysisResponse(h_req_id, ms, o.record))
  /\ UNCHANGED <<h_route, h_req_id, h_payload, h_results>>
  /\ UNCHANGED <<m_lock, m_pc, m_args, m_local, m_ret, m_order>>
  /\ UNCHANGED <<xvars, avars, rvars, tvars, jvars, kvars, svars>>

\* POST /execute arrives; execute_commands runs up to the first
\* await executor.run(cmd), or to its end when there is no command
execute_commands_call ==
  /\ h_pc = "idle"
  /\ h_route' = "/execute"
  /\ h_results' = <<>>
  /\ \E rid \in SessionIds, cs \in PayloadCommands, m \in BOOLEAN :
       /\ h_req_id' = rid
       /\ h_payload' = [commands |-> cs, safe_mode |-> m]
       /\ IF cs = <<>>
            THEN RecordAndReturn([method |-> "record_execution",
                                  request_id |-> rid, commands_run |-> 0],
                                 <<>>)
          ELSE /\ h_pc' = "run"
               /\ UNCHANGED <<h_status, h_response, h_raised, store>>
  /\ UNCHANGED h_result
  /\ UNCHANGED <<m_lock, m_pc, m_args, m_local, m_ret, m_order>>
  /\ UNCHANGED <<xvars, avars, rvars, tvars, jvars, kvars, svars>>

\* executor.run(cmd) returns; the loop goes on to the next command, or
\* execute_commands runs to its end
execute_commands_resume ==
  /\ h_pc = "run"
  /\ \E res \in RunReturns(h_payload.commands[Len(h_results) + 1],
                           h_payload.safe_mode) :
       LET results == Append(h_results, res)
       IN /\ h_results' = results
          /\ IF Len(results) < Len(h_payload.commands)
               THEN UNCHANGED <<h_pc, h_status, h_response, h_raised, store>>
             ELSE RecordAndReturn([method |-> "record_execution",
                                   request_id |-> h_req_id,
                                   commands_run |-> Len(h_payload.commands)],
                                  results)
  /\ UNCHANGED <<h_route, h_req_id, h_payload, h_result>>
  /\ UNCHANGED <<m_lock, m_pc, m_args, m_local, m_ret, m_order>>
  /\ UNCHANGED <<xvars, avars, rvars, tvars, jvars, kvars, svars>>

vars == <<xvars, avars, rvars, tvars, jvars, kvars, mvars, hvars, svars>>

\* No call has been made yet.
Init ==
  /\ command = <<>>
  /\ safe_mode = TRUE
  /\ x_pc = "idle"
  /\ cmd = <<>>
  /\ is_safe = FALSE
  /\ argv = <<>>
  /\ exec_calls = <<>>
  /\ procs = <<>>
  /\ x_result = NoValue
  /\ x_raised = "none"
  /\ x_outcome = "none"
  /\ op = "analyze"
  /\ request_id = <<>>
  /\ a_pc = "idle"
  /\ attempt = 0
  /\ last_exc = "none"
  /\ posts = 0
  /\ in_flight = 0
  /\ attempts = <<>>
  /\ waits = <<>>
  /\ pending = "none"
  /\ log = <<>>
  /\ a_return = NoValue
  /\ a_result = NoValue
  /\ a_raised = "none"
  /\ a_kind = "none"
  /\ r_pc = [i \in RunIds |-> "idle"]
  /\ r_cmd = [i \in RunIds |-> <<>>]
  /\ r_proc = [i \in RunIds |-> 0]
  /\ r_result = [i \in RunIds |-> NoValue]
  /\ r_outcome = [i \in RunIds |-> "none"]
  /\ children = <<>>
  /\ t_pc = "idle"
  /\ t_text = <<>>
  /\ t_max_chars = 0
  /\ t_out = <<>>
  /\ j_pc = "idle"
  /\ j_text = <<>>
  /\ j_out = NoValue
  /\ k_pc = "idle"
  /\ commands = <<>>
  /\ k_out = NoValue
  /\ store = MetricsStore
  /\ m_lock = 0
  /\ m_pc = [p \in Callers |-> "idle"]
  /\ m_args = [p \in Callers |-> NoValue]
  /\ m_local = [p \in Callers |-> NoValue]
  /\ m_ret = [p \in Callers |-> NoValue]
  /\ m_order = <<>>
  /\ h_pc = "idle"
  /\ h_route = "none"
  /\ h_req_id = <<>>
  /\ h_payload = NoValue
  /\ h_result = NoValue
  /\ h_results = <<>>
  /\ h_status = 0
  /\ h_response = NoValue
  /\ h_raised = "none"
  /\ s_last = NoValue
  /\ s_prev = <<>>

\* One call of SafeCommandExecutor.run
NextExecutor == run_call \/ run_complete \/ run_timeout \/ run_fault
SpecExecutor == Init /\ [][NextExecutor]_vars

\* MaxRuns invocations of SafeCommandExecutor.run, interleaved at its awaits
NextRuns ==
  \E i \in RunIds :
    runs_call(i) \/ runs_complete(i) \/ runs_timeout(i) \/ runs_fault(i)
SpecRuns == Init /\ [][NextRuns]_vars

\* One call of ClaudeDebugAgent._truncate
NextTruncate == truncate_call
SpecTruncate == Init /\ [][NextTruncate]_vars

\* One request to POST /analyze or POST /execute
NextHandlers ==
  \/ analyze_log_call
  \/ analyze_log_resume
  \/ execute_commands_call
  \/ execute_commands_resume
SpecHandlers == Init /\ [][NextHandlers]_vars

\* Record calls on one MetricsStore, each running to its end before the next
NextRecords == record_analysis_call \/ record_execution_call \/ record_feedback_call
SpecRecords == Init /\ [][NextRecords]_vars

\* Coroutines calling the methods of one MetricsStore
NextMetrics ==
  \E p \in Callers :
     metrics_call(p) \/ lock_acquire(p) \/ body_first(p) \/ body_rest(p)
SpecMetrics == Init /\ [][NextMetrics]_vars

\* One call of SafeCommandExecutor.classify_commands
NextClassify == classify_commands_call
SpecClassify == Init /\ [][NextClassify]_vars

\* One call of ClaudeDebugAgent._extract_json
NextExtract == extract_json_call
SpecExtract == Init /\ [][NextExtract]_vars

\* One call of ClaudeDebugAgent.analyze or evaluate_fix
NextAgent == agent_call \/ post_send \/ post_response \/ sleep_done
SpecAgent == Init /\ [][NextAgent]_vars

(***************************************************************************)
(* Properties                                                              *)
(***************************************************************************)
LastAttempt == attempts[Len(attempts)]
\* an attempt that ended in 429, 5xx or a transport timeout
Transient(r) ==
  \/ r.exc = "TimeoutException"
  \/ r.exc = "none" /\ (r.status = 429 \/ r.status >= 500)
Is2xx(r) == r.exc = "none" /\ r.status \in 200..299
\* a status that is not 2xx, not 429 and not 5xx
OtherStatus(r) ==
  r.exc = "none" /\ r.status # 429 /\ r.status < 500 /\ r.status \notin 200..299
EarlierTransient == \A i \in 1..(Len(attempts) - 1) : Transient(attempts[i])
ResultFields == {"command", "stdout", "stderr", "exit_code", "safe"}

\* C1: analyze and evaluate_fix never raise: whatever the remote call does,
\* the call ends by returning the merged record or one of the three
\* fallback records.
C1_NeverRaises ==
  a_pc = "done" =>
    /\ a_raised = "none"
    /\ a_kind \in {"merged", "fallback_rate_limit", "fallback_unavailable",
                   "fallback_parse"}

\* C2: a command string that matches a forbidden pattern always gets the
\* blocked result (exit_code -1, safe false, empty stdout) from run, in
\* either mode, and nothing is handed to create_subprocess_exec.
C2_ForbiddenNeverRuns ==
  (x_pc # "idle" /\ _is_forbidden(command)) =>
    /\ x_pc = "done"
    /\ x_result.exit_code = -1
    /\ x_result.safe = FALSE
    /\ x_result.stdout = ""
    /\ exec_calls = <<>>
    /\ procs = <<>>

\* C3: in safe mode a command that matches no whitelist pattern gets a
\* blocked result (a negative sentinel exit code, safe false) and no
\* process is spawned for it.
C3_SafeModeBlocksNonWhitelisted ==
  (x_pc # "idle" /\ safe_mode /\ ~_is_safe(command)) =>
    /\ x_pc = "done"
    /\ x_outcome \in {"blocked_forbidden", "blocked_whitelist"}
    /\ x_result.exit_code \in {-1, -2}
    /\ x_result.safe = FALSE
    /\ exec_calls = <<>>
    /\ procs = <<>>

C3_Witness ==
  /\ x_pc = "done"
  /\ safe_mode
  /\ ~_is_safe(command)
  /\ ~_is_forbidden(cmd)
  /\ x_result.exit_code = -2

\* C4: one call of _post_with_retry issues at most MAX_RETRIES POST
\* requests, whatever the attempts' outcomes are.
C4_AtMostMaxRetriesPosts == posts <= MAX_RETRIES /\ Len(attempts) <= posts

C4_Witness ==
  /\ a_pc = "done"
  /\ posts = MAX_RETRIES
  /\ \A i \in 1..Len(attempts) : Transient(attempts[i])

\* C5 as claimed: when attempt k gets a 2xx after k-1 transient failures,
\* the call returns the decoded body as success after exactly k POSTs.
C5_AsClaimed ==
  (attempts # <<>> /\ Is2xx(LastAttempt) /\ EarlierTransient) =>
    /\ a_pc = "done"
    /\ posts = Len(attempts)
    /\ in_flight = 0
    /\ a_return.exc = "none"
    /\ a_return.body = LastAttempt.body

\* C5 as amended: when attempt k gets a 2xx after k-1 transient failures,
\* the call ends there after exactly k POSTs: it returns the decoded body
\* when the body is JSON, and raises the decode error when it is not.
C5_SuccessEndsCall ==
  (attempts # <<>> /\ Is2xx(LastAttempt) /\ EarlierTransient) =>
    /\ a_pc = "done"
    /\ posts = Len(attempts)
    /\ in_flight = 0
    /\ Len(waits) = Len(attempts) - 1
    /\ IF LastAttempt.body.kind = "not_json"
         THEN a_return.exc = "JSONDecodeError"
       ELSE a_return.exc = "none" /\ a_return.body = LastAttempt.body

\* 429, 429, 2xx: success with exactly MAX_RETRIES requests
C5_Witness ==
  /\ a_pc = "done"
  /\ Len(attempts) = MAX_RETRIES
  /\ attempts[1].status = 429
  /\ attempts[2].status = 429
  /\ Is2xx(LastAttempt)
  /\ a_return.exc = "none"
  /\ posts = MAX_RETRIES

\* C6: when all MAX_RETRIES attempts end in transient failures, the call
\* raises RateLimitError exactly when the last attempt was a 429 and
\* APIError when it was a 5xx or a timeout, with no further request; 5xx on
\* every attempt gives the unavailable fallback from analyze.
C6_TerminalFailureByLastAttempt ==
  (/\ a_pc = "done"
   /\ Len(attempts) = MAX_RETRIES
   /\ \A i \in 1..Len(attempts) : Transient(attempts[i])) =>
    /\ posts = MAX_RETRIES
    /\ (LastAttempt.status = 429) <=> (a_return.exc = "RateLimitError")
    /\ (LastAttempt.status # 429) <=> (a_return.exc = "APIError")
    /\ (op = "analyze" /\ \A i \in 1..Len(attempts) : attempts[i].status >= 500)
         => a_kind = "fallback_unavailable"

\* C7: when every attempt of an analyze call gets a 429, each 429 is
\* followed by a wait whatever the retry-after header holds, all
\* MAX_RETRIES attempts are made, and analyze returns the fallback record
\* with the rate-limit message.
C7_All429GivesRateLimitFallback ==
  (/\ op = "analyze"
   /\ a_pc = "done"
   /\ attempts # <<>>
   /\ \A i \in 1..Len(attempts) : attempts[i].exc = "none" /\ attempts[i].status = 429) =>
    /\ Len(waits) = Len(attempts)
    /\ Len(attempts) = MAX_RETRIES
    /\ a_raised = "none"
    /\ a_result["reasoning_summary"] = RateLimitText("analyze")

\* C8: a status that is not 2xx, not 429 and not 5xx ends the call at that
\* attempt: no wait follows it and no further POST is issued.
C8_OtherStatusEndsCall ==
  (attempts # <<>> /\ OtherStatus(LastAttempt)) =>
    /\ a_pc = "done"
    /\ posts = Len(attempts)
    /\ in_flight = 0
    /\ Len(waits) = Len(attempts) - 1
    /\ a_return.exc = "HTTPStatusError"

C8_Witness ==
  /\ a_pc = "done"
  /\ Len(attempts) = 2
  /\ Transient(attempts[1])
  /\ LastAttempt.exc = "none"
  /\ LastAttempt.status = 401

\* C9: run is total: for every command, either mode and every launch or
\* runtime fault it returns a result with the five fields and raises
\* nothing.
C9_RunIsTotal ==
  /\ x_raised = "none"
  /\ x_pc = "done" => DOMAIN x_result = ResultFields

C9_Witness ==
  /\ x_pc = "done"
  /\ x_outcome = "execution_error"
  /\ x_result.exit_code = -4
  /\ procs = <<>>

\* C10: a negative exit_code comes only from a sentinel outcome, never from
\* a normal completion, so the exit_code tells the outcome kinds apart.
C10_NegativeExitCodeIsSentinel ==
  (x_pc = "done" /\ x_result.exit_code < 0) => x_outcome # "completed"

\* C11: every process run spawns is started directly from the tokenized
\* argument vector: its program is the first token of the stripped command,
\* its arguments are the remaining tokens unchanged, no shell stands in
\* between, and one run never starts a second program.
C11_SpawnedFromArgv ==
  /\ Len(procs) <= 1
  /\ Len(exec_calls) <= 1
  /\ \A i \in DOMAIN procs :
       LET sp == ShlexSplit(Strip(command))
       IN /\ sp.ok
          /\ sp.argv # <<>>
          /\ procs[i].shell = FALSE
          /\ procs[i].program = sp.argv[1]
          /\ procs[i].args = Tail(sp.argv)
          /\ exec_calls[i] = sp.argv

\* "ls ;" with safe_mode off: ls runs with the single argument ";"
C11_Witness ==
  /\ ~safe_mode
  /\ Len(procs) = 1
  /\ procs[1].program = <<"l", "s">>
  /\ procs[1].args = << <<";">> >>
  /\ procs[1].shell = FALSE
  /\ x_pc = "done"
  /\ x_outcome = "completed"

\* C12: when a spawned command does not complete within the 15 seconds, run
\* kills that same process before it returns and returns the timeout result
\* (exit_code -3); a process is killed only by the invocation of run that
\* spawned it, and only on that invocation's timeout.
C12_TimeoutKillsOwnProcess ==
  /\ \A i \in RunIds :
       r_outcome[i] = "timeout" =>
         /\ r_pc[i] = "done"
         /\ r_result[i].exit_code = -3
         /\ r_proc[i] \in DOMAIN children
         /\ children[r_proc[i]].owner = i
         /\ children[r_proc[i]].state = "killed"
         /\ children[r_proc[i]].killed_by = i
  /\ \A k \in DOMAIN children :
       /\ children[k].state = "killed" =>
            /\ children[k].killed_by = children[k].owner
            /\ r_outcome[children[k].owner] = "timeout"
       /\ children[k].state # "killed" => children[k].killed_by = 0

\* Invocation 1 spawned first and timed out while the process invocation 2
\* spawned after it is still running: only the first process is killed.
C12_Witness ==
  /\ Len(children) = 2
  /\ children[1].owner = 1
  /\ children[2].owner = 2
  /\ r_outcome[1] = "timeout"
  /\ r_result[1].exit_code = -3
  /\ children[1].state = "killed"
  /\ children[2].state = "running"
  /\ r_pc[2] = "communicate"

\* floor(B/2), and the characters of the text _truncate keeps around the marker
HalfBudget == t_max_chars \div 2
KeptHead == SubSeq(t_text, 1, HalfBudget)
KeptTail == SubSeq(t_text, Len(t_text) - HalfBudget + 1, Len(t_text))

\* C13: for every text T and budget B with len(T) > B, the text _truncate
\* returns is at most B characters long.
C13_TruncatedFitsBudget ==
  (t_pc = "done" /\ Len(t_text) > t_max_chars) => Len(t_out) <= t_max_chars

\* C14: for every text T and budget B >= 0, _truncate returns T when
\* len(T) <= B; otherwise it returns the first floor(B/2) characters of T,
\* then the marker, then the last floor(B/2) characters of T, and nothing
\* else of T.
C14_HeadMarkerTail ==
  t_pc = "done" =>
    IF Len(t_text) <= t_max_chars THEN t_out = t_text
    ELSE \E n \in 0..Len(t_text) : t_out = KeptHead \o Marker(n) \o KeptTail

\* C15: whenever _truncate drops characters, the number in the marker is the
\* number of characters of T absent from the output: len(T) minus the head
\* and tail characters kept, for odd budgets too.
C15_MarkerCountsDropped ==
  (t_pc = "done" /\ Len(t_text) > t_max_chars /\ HalfBudget > 0) =>
    t_out = KeptHead \o Marker(Len(t_text) - 2 * HalfBudget) \o KeptTail

\* The delimiters of a block, and where they stand in the text passed to
\* _extract_json
OpenTag == <<"<", "j", "s", "o", "n", ">">>
CloseTag == <<"<", "/", "j", "s", "o", "n", ">">>
Positions == 1..Len(j_text)
Opens == {i \in Positions : StartsAt(j_text, i, OpenTag)}
Closes == {j \in Positions : StartsAt(j_text, j, CloseTag)}
\* the blocks: an opening delimiter at b[1] and a closing delimiter at b[2]
\* after it
Blocks == {b \in Opens \X Closes : b[2] >= b[1] + Len(OpenTag)}
BlockValue(b) ==
  json_loads(Strip(SubSeq(j_text, b[1] + Len(OpenTag), b[2] - 1)))
HoldsRecord(b) == BlockValue(b).exc = "none" /\ BlockValue(b).t = "object"
\* b stands before c in the text
Before(b, c) == b[1] < c[1] \/ (b[1] = c[1] /\ b[2] <= c[2])

\* C16 (as stated): for every reply text that contains a <json>...</json>
\* block holding a valid record, _extract_json returns exactly the record of
\* the first such block, whatever surrounds it.
C16_AsClaimed ==
  j_pc = "done" =>
    LET valid == {b \in Blocks : HoldsRecord(b)}
    IN \A b \in valid :
         (\A c \in valid : Before(b, c)) => j_out = BlockValue(b)

\* C16 (amended): when the first block of the reply text (the first opening
\* delimiter and the first closing delimiter after it) holds a valid record,
\* _extract_json returns exactly that record, whatever text, braces or
\* further blocks surround it; when it holds no valid JSON, _extract_json
\* raises the decode error even if a later block holds a valid record.
C16_FirstBlockDecoded ==
  j_pc = "done" =>
    \A b \in Blocks :
      (\A c \in Blocks : Before(b, c)) =>
        /\ j_out = BlockValue(b)
        /\ HoldsRecord(b) => (j_out.exc = "none" /\ j_out.t = "object")
        /\ BlockValue(b).exc # "none" => j_out.exc = "JSONDecodeError"

\* {<json>{"a":1}</json>} : braces around the block, the block's record returned
C16_Witness ==
  /\ j_pc = "done"
  /\ j_text = <<"{">> \o OpenTag \o <<"{", "\"", "a", "\"", ":", "1", "}">>
               \o CloseTag \o <<"}">>
  /\ j_out.exc = "none"
  /\ j_out.t = "object"
  /\ DOMAIN j_out.v = {"a"}
  /\ j_out.v["a"] = 1

RECURSIVE BalancedEnd(_, _)
\* the position of the brace that closes the region opened before position i,
\* depth braces being open there; 0 when the region is never closed
BalancedEnd(i, depth) ==
  IF i > Len(j_text) THEN 0
  ELSE IF j_text[i] = "{" THEN BalancedEnd(i + 1, depth + 1)
  ELSE IF j_text[i] = "}"
    THEN IF depth = 1 THEN i ELSE BalancedEnd(i + 1, depth - 1)
  ELSE BalancedEnd(i + 1, depth)
HasBlock == Blocks # {}
\* the first balanced brace-delimited region starts at i
IsFirstBrace(i) ==
  /\ i \in Positions
  /\ j_text[i] = "{"
  /\ \A h \in Positions : j_text[h] = "{" => i <= h
FirstRegionValue(i) == json_loads(SubSeq(j_text, i, BalancedEnd(i + 1, 1)))

\* C17: for every reply text with no delimited block, _extract_json decodes
\* the first balanced brace-delimited region: when that region is a valid
\* record, the record is returned, also when further text or further brace
\* regions follow it.
C17_FirstBalancedRegion ==
  (j_pc = "done" /\ ~HasBlock) =>
    \A i \in Positions :
      ( /\ IsFirstBrace(i)
        /\ BalancedEnd(i + 1, 1) # 0
        /\ FirstRegionValue(i).exc = "none"
        /\ FirstRegionValue(i).t = "object" )
      => j_out = FirstRegionValue(i)

(***************************************************************************)
(* Parse failures, defaults and enumerated fields of the returned records  *)
(***************************************************************************)
\* the text has an opening tag with a closing tag somewhere after it
HasTagPair(text) ==
  \E i, j \in 1..Len(text) :
     /\ StartsAt(text, i, OpenTag)
     /\ StartsAt(text, j, CloseTag)
     /\ j >= i + Len(OpenTag)

\* the text has an opening brace with a closing brace somewhere after it
HasBraceRegion(text) ==
  \E i, j \in 1..Len(text) : i < j /\ text[i] = "{" /\ text[j] = "}"

\* the call is over and its last response was a 2xx whose body holds a
\* reply text
EndedOnReplyText ==
  /\ a_pc = "done"
  /\ attempts # <<>>
  /\ Is2xx(LastAttempt)
  /\ LastAttempt.body.kind \in {"text", "usage_null"}

\* C18: when the remote call succeeds (2xx) and the reply text has no
\* delimited block and no brace-delimited region, analyze raises nothing and
\* returns the fallback record carrying the parsing-failure message, and the
\* last log entry is the parse error, at error level, tagged with the
\* request id as every log line of the agent carries it (request_id[:8]).
C18_ParseFailureGivesFallback ==
  (/\ EndedOnReplyText
   /\ op = "analyze"
   /\ ~HasTagPair(LastAttempt.body.text)
   /\ ~HasBraceRegion(LastAttempt.body.text)) =>
    /\ a_raised = "none"
    /\ a_kind = "fallback_parse"
    /\ a_result = _analysis_fallback(
         "Response parsing failed - the model returned an unexpected format.")
    /\ log # <<>>
    /\ log[Len(log)] = <<"error", "parse error", SliceTo(request_id, 8)>>

\* a timeout, then a 200 whose reply text is }{ , for a request with an id
C18_Witness ==
  /\ EndedOnReplyText
  /\ op = "analyze"
  /\ request_id # <<>>
  /\ Len(attempts) = 2
  /\ LastAttempt.body.text = <<"}", "{">>
  /\ a_kind = "fallback_parse"
  /\ a_result.explanation =
       "Response parsing failed - the model returned an unexpected format."
  /\ log[Len(log)][1] = "error"

\* the fields every record of the operation holds
FieldsOf(o) == IF o = "analyze" THEN AnalysisFields ELSE FeedbackFields
DefaultsOf(o) == IF o = "analyze" THEN AnalysisDefaults ELSE FeedbackDefaults

\* C19: every record returned by analyze contains all eleven AnalysisRecord
\* fields and every record returned by evaluate_fix all four FeedbackRecord
\* fields; when the record is the decoded model record merged over the
\* defaults, each field the model record omits holds its default.
C19_FullyPopulated ==
  (a_pc = "done" /\ a_raised = "none") =>
    /\ FieldsOf(op) \subseteq DOMAIN a_result
    /\ a_kind = "merged" =>
         \A decoded \in {Structured(a_return).v} :
            \A f \in FieldsOf(op) \ DOMAIN decoded :
               a_result[f] = DefaultsOf(op)[f]

\* analyze on a block with two of the eleven fields: nine defaults
C19_Witness ==
  /\ a_pc = "done"
  /\ op = "analyze"
  /\ a_kind = "merged"
  /\ a_result.severity = "low"
  /\ a_result.error_type = "ImportError"
  /\ a_result.error_category = "unknown"
  /\ a_result.confidence = "Insufficient context"
  /\ a_result.model_used = MODEL

ErrorCategories ==
  {"python", "docker", "npm", "node", "system", "network", "database",
   "git", "kubernetes", "terraform", "unknown"}
Severities == {"low", "medium", "high", "critical"}

\* C20: in every record returned by analyze, error_category is one of the
\* eleven categories and severity is one of low, medium, high, critical,
\* whatever values the decoded model record carries.
C20_EnumeratedFields ==
  (a_pc = "done" /\ op = "analyze" /\ a_raised = "none") =>
    /\ a_result.error_category \in ErrorCategories
    /\ a_result.severity \in Severities

\* C21: successful and degraded results of analyze have the same shape: the
\* set of field names of every returned record is exactly the AnalysisRecord
\* field set, with no additional field, whatever fields the decoded model
\* record carries.
C21_SameShape ==
  (a_pc = "done" /\ op = "analyze" /\ a_raised = "none") =>
    DOMAIN a_result = AnalysisFields

(***************************************************************************)
(* classify_commands                                                       *)
(***************************************************************************)
RECURSIVE PickAt(_, _)
\* the elements of s at the indices I, in the order of s
PickAt(s, I) ==
  IF s = <<>> THEN <<>>
  ELSE LET n == Len(s)
           rest == PickAt(SubSeq(s, 1, n - 1), I \ {n})
       IN IF n \in I THEN Append(rest, s[n]) ELSE rest

Buckets == {"safe", "unsafe", "forbidden"}

\* C22: classify_commands partitions its input without executing anything:
\* every element of the input list appears in exactly one of the buckets
\* safe, unsafe, forbidden, each bucket keeps the input order, a command
\* matching a forbidden pattern is in forbidden even if it matches the
\* whitelist, and no process is spawned.
C22_ClassifyPartitions ==
  k_pc = "done" =>
    /\ \E lab \in [1..Len(commands) -> Buckets] :
         /\ \A b \in Buckets :
              k_out[b] = PickAt(commands, {i \in 1..Len(commands) : lab[i] = b})
         /\ \A i \in 1..Len(commands) :
              _is_forbidden(commands[i]) => lab[i] = "forbidden"
    /\ procs = <<>>
    /\ exec_calls = <<>>
    /\ children = <<>>

\* "ls halt" is whitelisted and forbidden; "ls" and "rm" follow it
C22_Witness ==
  /\ k_pc = "done"
  /\ commands = << <<"l", "s", " ", "h", "a", "l", "t">>, <<"l", "s">>,
                   <<"r", "m">> >>
  /\ _is_safe(commands[1])
  /\ k_out.forbidden = << <<"l", "s", " ", "h", "a", "l", "t">> >>
  /\ k_out.safe = << <<"l", "s">> >>
  /\ k_out.unsafe = << <<"r", "m">> >>

InBucket(c, b) == \E j \in 1..Len(k_out[b]) : k_out[b][j] = c

\* C23: classify_commands and run apply the same classification to every
\* command string, including strings with leading or trailing whitespace: a
\* command is in the forbidden bucket if and only if run returns the
\* forbidden-blocked result (exit_code -1) for it, and in the safe bucket if
\* and only if run with safe_mode=true does not block it.
C23_SameClassification ==
  k_pc = "done" =>
    \A i \in 1..Len(commands) :
       /\ InBucket(commands[i], "forbidden") <=> RunBlocksForbidden(commands[i])
       /\ InBucket(commands[i], "safe") <=> ~RunBlocksInSafeMode(commands[i])

(***************************************************************************)
(* Order and length of the waits of _post_with_retry                       *)
(***************************************************************************)
\* C24: within one call of _post_with_retry, attempts are strictly
\* sequential: a request is issued only after every earlier attempt has
\* produced its outcome and the wait that followed it has completed, and at
\* no time are two requests of the call in flight.
C24_AttemptsSequential ==
  /\ in_flight \in {0, 1}
  /\ in_flight = 1 <=> a_pc = "awaiting"
  /\ posts = Len(attempts) + in_flight
  /\ a_pc = "awaiting" =>
       /\ attempt = posts - 1
       /\ Len(waits) = posts - 1
       /\ \A i \in 1..Len(attempts) : Transient(attempts[i])

\* the third request is in flight after two outcomes and two completed waits
C24_Witness ==
  /\ a_pc = "awaiting"
  /\ posts = MAX_RETRIES
  /\ Len(attempts) = 2
  /\ Len(waits) = 2
  /\ attempt = 2
  /\ in_flight = 1

\* the longest wait the client's own backoff asks for, in milliseconds:
\* BASE_BACKOFF ** MAX_RETRIES plus the largest jitter
LongestBackoff == BackoffPow(MAX_RETRIES) + 500

\* C25: every single wait of a call, including the wait after a 429 that
\* carries a server-provided retry hint, is at most a few seconds, whatever
\* the server returns.
C25_WaitsBounded ==
  \A i \in 1..Len(waits) : waits[i] <= LongestBackoff

\* C29: every attempt that ends in 429, 5xx or timeout is followed by exactly
\* one wait, including the last allowed attempt: a call that exhausts all
\* MAX_RETRIES attempts performs MAX_RETRIES waits and surfaces its terminal
\* failure only after the final wait has completed.
C29_OneWaitPerTransientAttempt ==
  /\ Len(waits) = Cardinality({i \in 1..Len(attempts) : Transient(attempts[i])})
  /\ (a_pc = "done" /\ Len(attempts) = MAX_RETRIES
        /\ \A i \in 1..Len(attempts) : Transient(attempts[i])) =>
       Len(waits) = MAX_RETRIES /\ attempt = MAX_RETRIES

(***************************************************************************)
(* Tokenisation failures and the safe flag of run's results                *)
(***************************************************************************)
\* run has passed the forbidden check and the safe-mode check
PassedChecks ==
  x_pc # "idle" /\ ~_is_forbidden(cmd) /\ ~(safe_mode /\ ~_is_safe(cmd))

\* run returned the parse-error result and no process was spawned
ParseErrorReturned ==
  /\ x_pc = "done"
  /\ x_raised = "none"
  /\ x_result.exit_code = -5
  /\ x_result.command = cmd
  /\ x_result.stdout = ""
  /\ procs = <<>>
  /\ exec_calls = <<>>

\* the number of quote characters of s
QuoteCount(s) == Cardinality({i \in 1..Len(s) : s[i] = "'"})

\* C26: for every command that passes the forbidden check and the safe-mode
\* check, if tokenization fails (here: a single quote left open) or yields an
\* empty argument vector, run returns the parse-error result (exit_code -5)
\* and spawns no process; with safe_mode=false an empty or whitespace-only
\* command yields this result.
C26_ParseErrorSpawnsNothing ==
  /\ (PassedChecks /\ (~ShlexSplit(cmd).ok \/ ShlexSplit(cmd).argv = <<>>))
       => ParseErrorReturned
  /\ (PassedChecks /\ QuoteCount(cmd) % 2 = 1) => ParseErrorReturned
  /\ (x_pc # "idle" /\ ~safe_mode /\ Strip(command) = <<>>)
       => ParseErrorReturned

\* run("ls '") with safe_mode=false
C26_Witness ==
  /\ x_pc = "done"
  /\ ~safe_mode
  /\ cmd = <<"l", "s", " ", "'">>
  /\ x_outcome = "parse_error"
  /\ x_result.exit_code = -5
  /\ procs = <<>>

\* C30: in every result returned by run, safe=true implies the command
\* matched a whitelist pattern, matched no forbidden pattern and was not
\* blocked (exit_code is neither -1 nor -2); with safe_mode=true every result
\* that is not a blocked result has safe=true, and a process is spawned in
\* safe mode only for a whitelisted, non-forbidden command.
C30_SafeFlagMeansWhitelistedAndRun ==
  /\ (x_pc = "done" /\ x_raised = "none") =>
       /\ x_result.safe =>
            /\ _is_safe(command)
            /\ ~_is_forbidden(command)
            /\ x_result.exit_code \notin {-1, -2}
       /\ (safe_mode /\ x_result.exit_code \notin {-1, -2}) => x_result.safe
  /\ (safe_mode /\ procs # <<>>) =>
       _is_safe(command) /\ ~_is_forbidden(command)

(***************************************************************************)
(* MetricsStore under concurrent callers                                   *)
(***************************************************************************)
RECURSIVE StoreAfter(_)
\* the store after the calls of the callers listed have run one at a time
StoreAfter(order) ==
  IF order = <<>> THEN MetricsStore
  ELSE ApplyCall(StoreAfter(SubSeq(order, 1, Len(order) - 1)),
                 m_args[order[Len(order)]])

\* the callers that released the lock before caller p did
OrderBefore(p) ==
  SubSeq(m_order, 1, (CHOOSE i \in 1..Len(m_order) : m_order[i] = p) - 1)

CompletedCalls(method) ==
  {p \in Callers : m_pc[p] = "done" /\ m_args[p].method = method}

RECURSIVE SumOf(_)
\* the sum of the counts of a breakdown
SumOf(d) ==
  IF DOMAIN d = {} THEN 0
  ELSE LET k == CHOOSE x \in DOMAIN d : TRUE
       IN d[k] + SumOf([x \in DOMAIN d \ {k} |-> d[x]])

\* the record_analysis calls among the callers listed
AnalysesIn(order) ==
  {i \in 1..Len(order) : m_args[order[i]].method = "record_analysis"}

\* C27: under any interleaving of concurrent record_analysis,
\* record_execution, record_feedback and snapshot calls on one MetricsStore,
\* no update is lost and no snapshot observes a half-applied update: whenever
\* the lock is free the store is what the completed calls produce one after
\* another (total_analyses is the number of completed record_analysis calls),
\* and every snapshot returns totals, breakdowns and session records of
\* exactly the calls that completed before it.
C27_NoLostUpdateNoTornSnapshot ==
  /\ m_lock = 0 =>
       /\ store = StoreAfter(m_order)
       /\ store.total_analyses = Cardinality(CompletedCalls("record_analysis"))
       /\ store.total_executions = Cardinality(CompletedCalls("record_execution"))
       /\ store.total_feedback_evals = Cardinality(CompletedCalls("record_feedback"))
  /\ \A p \in CompletedCalls("snapshot") :
       LET before == OrderBefore(p)
           seen == StoreAfter(before)
       IN /\ m_ret[p] = snapshot_dict(seen, snapshot_locals(seen))
          /\ m_ret[p].totals.analyses = Cardinality(AnalysesIn(before))
          /\ SumOf(m_ret[p].by_category) = m_ret[p].totals.analyses
          /\ SumOf(m_ret[p].by_severity) = m_ret[p].totals.analyses
          /\ m_ret[p].samples = m_ret[p].totals.analyses
          /\ Len(m_ret[p].recent_sessions) =
               Cardinality({m_args[before[i]].request_id : i \in AnalysesIn(before)})

\* one record_analysis is complete, a second one holds the lock with its
\* counters written and its session record not yet, and a snapshot waits
C27_Witness ==
  \E p, q, r \in Callers :
     /\ m_pc[p] = "done" /\ m_args[p].method = "record_analysis"
     /\ m_pc[q] = "half" /\ m_args[q].method = "record_analysis"
     /\ m_args[q].request_id # m_args[p].request_id
     /\ m_lock = q
     /\ store.total_analyses = 2
     /\ Len(store._recent) = 1
     /\ m_pc[r] = "waiting" /\ m_args[r].method = "snapshot"

(***************************************************************************)
(* POST /analyze and POST /execute                                         *)
(***************************************************************************)
\* C28: every /analyze request for which the agent returns a record results
\* in exactly one record_analysis on the MetricsStore with that request's id
\* (total_analyses grows by one), after which the handler returns the
\* analysis response carrying the same request_id; likewise /execute returns
\* one result per submitted command, in input order, after recording the
\* execution.
C28_HandlersRecordThenReturn ==
  /\ (h_pc = "done" /\ h_route = "/analyze" /\ h_result # NoValue) =>
       /\ h_raised = "none"
       /\ h_status = 200
       /\ store.total_analyses = 1
       /\ h_req_id \in DOMAIN store._sessions
       /\ h_response.request_id = h_req_id
  /\ (h_pc = "done" /\ h_route = "/execute") =>
       /\ h_raised = "none"
       /\ h_status = 200
       /\ store.total_executions = 1
       /\ store.total_commands_run = Len(h_payload.commands)
       /\ Len(h_response) = Len(h_payload.commands)
       /\ \A i \in 1..Len(h_payload.commands) :
            h_response[i].command = Strip(h_payload.commands[i])

(***************************************************************************)
(* evaluate_fix never reports a fix as working on its own                  *)
(***************************************************************************)
FallbackKinds ==
  {"fallback_rate_limit", "fallback_unavailable", "fallback_parse"}

\* C31: evaluate_fix returns a record with fix_worked=true only when the
\* remote call returned 2xx and the decoded record itself carries
\* fix_worked=true; every fallback record it returns (rate limit,
\* unavailable, parse failure) has fix_worked=false and still_broken=true,
\* and a decoded record that omits both fields yields fix_worked=false and
\* still_broken=true.
C31_FixWorkedOnlyFromModel ==
  (a_pc = "done" /\ op = "evaluate_fix" /\ a_raised = "none") =>
    /\ a_kind \in FallbackKinds \cup {"merged"}
    /\ a_result.fix_worked = TRUE =>
         /\ attempts # <<>>
         /\ Is2xx(LastAttempt)
         /\ a_kind = "merged"
         /\ \A decoded \in {Structured(a_return).v} :
              "fix_worked" \in DOMAIN decoded /\ decoded.fix_worked = TRUE
    /\ a_kind \in FallbackKinds =>
         a_result.fix_worked = FALSE /\ a_result.still_broken = TRUE
    /\ a_kind = "merged" =>
         \A decoded \in {Structured(a_return).v} :
            ({"fix_worked", "still_broken"} \cap DOMAIN decoded = {}) =>
               a_result.fix_worked = FALSE /\ a_result.still_broken = TRUE

\* a 429, then a 200 whose block carries only fix_worked=true
C31_Witness ==
  /\ a_pc = "done"
  /\ op = "evaluate_fix"
  /\ Len(attempts) = 2
  /\ attempts[1].status = 429
  /\ Is2xx(LastAttempt)
  /\ a_kind = "merged"
  /\ a_result.fix_worked = TRUE
  /\ a_result.still_broken = TRUE
  /\ a_result.analysis = "No analysis returned."

(***************************************************************************)
(* The counters and windows of the MetricsStore after any run of calls     *)
(***************************************************************************)
\* C32: after any sequence of record_analysis, record_execution and
\* record_feedback calls on a MetricsStore: total_analyses equals the sum of
\* the by_category counts and the sum of the by_severity counts,
\* fixes_confirmed <= total_feedback_evals, api_errors <= total_analyses, the
\* latency window holds at most 200 samples, the recent list holds at most 20
\* distinct ids each of which has a session record, and record_execution or
\* record_feedback for an id with no session record leaves the session index
\* unchanged.
C32_StoreInvariants ==
  /\ store.total_analyses = SumOf(store.by_category)
  /\ store.total_analyses = SumOf(store.by_severity)
  /\ store.fixes_confirmed <= store.total_feedback_evals
  /\ store.api_errors <= store.total_analyses
  /\ Len(store._response_times) <= 200
  /\ Len(store._recent) <= 20
  /\ \A i, j \in 1..Len(store._recent) :
       i # j => store._recent[i] # store._recent[j]
  /\ \A i \in 1..Len(store._recent) :
       store._recent[i] \in DOMAIN store._sessions
  /\ (/\ s_last # NoValue
      /\ s_last.method \in {"record_execution", "record_feedback"}
      /\ s_last.request_id \notin DOMAIN s_prev) =>
       store._sessions = s_prev

\* 201 analyses for 21 ids have filled both windows and pushed one sample
\* and one id out; the feedback just recorded names an id without session
C32_Witness ==
  /\ store.total_analyses = 201
  /\ Len(store._response_times) = 200
  /\ Cardinality(DOMAIN store._sessions) = 21
  /\ Len(store._recent) = 20
  /\ s_last # NoValue
  /\ s_last.method = "record_feedback"
  /\ s_last.request_id \notin DOMAIN store._sessions
  /\ store.total_feedback_evals = 1

=============================================================================
